---- MODULE Spec2Model ----
(***************************************************************************)
(* Shell-model nucleus of build-a-nucleus (chart-intro screen).            *)
(*                                                                         *)
(* The module models ShellModelNucleus: the two slot tables                *)
(* (protonShellPositions / neutronShellPositions), the ordered arrays of   *)
(* counted particles of the ParticleAtom, the reached-row indices, the     *)
(* per-particle animation destinations, and the operations that change     *)
(* them.  Rows and slots are 0-based as in the source; the counted arrays  *)
(* are TLA+ sequences, so the particle with source index i is element i+1. *)
(***************************************************************************)
EXTENDS Integers, Sequences, FiniteSets, TLC

(***************************************************************************)
(* Bounds of the model                                                     *)
(***************************************************************************)

\* proton identities available to the main specification
MaxId == 2

\* neutron identities available to the main specification
MaxNeutronId == 1

\* number of distinct orderings of the counted array drawn by SpecAssign
MaxOrderings == 3

\* incoming (reserved, not counted) particles available to SpecAssign
MaxReserve == 1

(***************************************************************************)
(* EnergyLevelType                                                         *)
(***************************************************************************)

\* the orbitals in order: n, l, 2j, yPosition
ENERGY_LEVELS ==
  << [n |-> 1, l |-> 0, j2 |-> 1, yPosition |-> 0],
     [n |-> 1, l |-> 1, j2 |-> 3, yPosition |-> 1],
     [n |-> 1, l |-> 1, j2 |-> 1, yPosition |-> 2],
     [n |-> 1, l |-> 2, j2 |-> 5, yPosition |-> 3],
     [n |-> 2, l |-> 0, j2 |-> 1, yPosition |-> 4],
     [n |-> 1, l |-> 2, j2 |-> 3, yPosition |-> 5],
     [n |-> 1, l |-> 3, j2 |-> 7, yPosition |-> 6],
     [n |-> 2, l |-> 1, j2 |-> 3, yPosition |-> 7],
     [n |-> 1, l |-> 3, j2 |-> 5, yPosition |-> 8],
     [n |-> 2, l |-> 1, j2 |-> 1, yPosition |-> 9] >>

NUMBER_OF_ENERGY_LEVELS == Len(ENERGY_LEVELS)

Rows == 0 .. (NUMBER_OF_ENERGY_LEVELS - 1)

\* the capacity taken as j + 1/2 rounded, (j2 + 2) / 2, instead of 2j + 1
capacityHalved(i) == (ENERGY_LEVELS[i + 1].j2 + 2) \div 2

\* capacity of the level with 0-based row index i: 2j + 1
capacity(i) == ENERGY_LEVELS[i + 1].j2 + 1

RECURSIVE SumCapacity(_)
\* capacity of the rows 0 .. n-1
SumCapacity(n) == IF n <= 0 THEN 0 ELSE SumCapacity(n - 1) + capacity(n - 1)

TOTAL_CAPACITY == SumCapacity(NUMBER_OF_ENERGY_LEVELS)

RECURSIVE MaxCapacityUpTo(_)
MaxCapacityUpTo(n) ==
  IF n <= 0 THEN 0
  ELSE LET m == MaxCapacityUpTo(n - 1)
       IN IF capacity(n - 1) > m THEN capacity(n - 1) ELSE m

MAX_LEVEL_CAPACITY == MaxCapacityUpTo(NUMBER_OF_ENERGY_LEVELS)

\* the allowed x positions of a row: 0 .. capacity-1, as a 0-based array
ALLOWED_PARTICLE_POSITIONS == [row \in Rows |-> [j \in 0 .. (capacity(row) - 1) |-> j]]

(***************************************************************************)
(* Row-index helpers                                                       *)
(***************************************************************************)

getCapacityBelowRow(rowIndex) == SumCapacity(rowIndex)

RECURSIVE RowIndexLoopOffByOne(_, _)
\* the loop with the test r <= 0 in place of r < 0
RowIndexLoopOffByOne(r, i) ==
  IF i >= NUMBER_OF_ENERGY_LEVELS
    THEN [row |-> NUMBER_OF_ENERGY_LEVELS - 1, outOfRange |-> TRUE]
    ELSE IF r - capacity(i) <= 0
           THEN [row |-> i, outOfRange |-> FALSE]
           ELSE RowIndexLoopOffByOne(r - capacity(i), i + 1)

RECURSIVE RowIndexLoop(_, _)
\* the for loop of getRowIndexForGlobalIndex: r is the remainder before row i
RowIndexLoop(r, i) ==
  IF i >= NUMBER_OF_ENERGY_LEVELS
    THEN [row |-> NUMBER_OF_ENERGY_LEVELS - 1, outOfRange |-> TRUE]
    ELSE IF r - capacity(i) < 0
           THEN [row |-> i, outOfRange |-> FALSE]
           ELSE RowIndexLoop(r - capacity(i), i + 1)

\* the row returned (the last row when the assertion is compiled out)
getRowIndexForGlobalIndex(index0Based) == RowIndexLoop(index0Based, 0).row

\* the "index out of supported range" assertion is reached
RowIndexOutOfRange(index0Based) == RowIndexLoop(index0Based, 0).outOfRange

RECURSIVE ReachedRowLoopStrict(_, _, _)
\* the loop with the test safeCount < running in place of safeCount <= running
ReachedRowLoopStrict(safeCount, running, i) ==
  IF i >= NUMBER_OF_ENERGY_LEVELS
    THEN NUMBER_OF_ENERGY_LEVELS - 1
    ELSE IF safeCount < running + capacity(i)
           THEN i
           ELSE ReachedRowLoopStrict(safeCount, running + capacity(i), i + 1)

RECURSIVE ReachedRowLoop(_, _, _)
ReachedRowLoop(safeCount, running, i) ==
  IF i >= NUMBER_OF_ENERGY_LEVELS
    THEN NUMBER_OF_ENERGY_LEVELS - 1
    ELSE IF safeCount <= running + capacity(i)
           THEN i
           ELSE ReachedRowLoop(safeCount, running + capacity(i), i + 1)

\* the loop starts at the second row
getReachedRowIndexForCountFromSecondRow(nucleonCount) ==
  ReachedRowLoop(IF nucleonCount > 0 THEN nucleonCount ELSE 0, 0, 1)

getReachedRowIndexForCount(nucleonCount) ==
  ReachedRowLoop(IF nucleonCount > 0 THEN nucleonCount ELSE 0, 0, 0)

RECURSIVE LocalXLoop(_, _)
\* the while loop of getLocalXIndex
LocalXLoop(indexForRow, r) ==
  IF r >= 0
    THEN LocalXLoop(indexForRow - (capacity(r)), r - 1)
    ELSE indexForRow

\* -1 stands for undefined (ALLOWED_PARTICLE_POSITIONS[row][k] with k outside the row)
getLocalXIndex(globalIndex, rowIndex) ==
  LET indexForRow == LocalXLoop(globalIndex, rowIndex - 1)
  IN IF indexForRow \in DOMAIN ALLOWED_PARTICLE_POSITIONS[rowIndex]
       THEN ALLOWED_PARTICLE_POSITIONS[rowIndex][indexForRow]
       ELSE -1

(***************************************************************************)
(* Particles                                                               *)
(***************************************************************************)

PROTON == "proton"
NEUTRON == "neutron"
ParticleTypes == {PROTON, NEUTRON}

\* the largest particle id any specification uses
NewParticle(particleType, id) == [type |-> particleType, id |-> id]

\* the value of a slot's particle field when it is undefined
NoParticle == [type |-> "none", id |-> 0]

\* a search that starts at the second element
includesFromSecond(array, particle) == \E k \in 2 .. Len(array) : array[k] = particle

includes(array, particle) == \E k \in 1 .. Len(array) : array[k] = particle

(***************************************************************************)
(* Geometry: PARTICLE_POSITIONING_TRANSFORM.  View coordinates are kept as *)
(* integers in units of 1/NUMBER_OF_Y_SPACINGS of a view unit, because the *)
(* row step MAX_STACK_HEIGHT / NUMBER_OF_Y_SPACINGS is not an integer.     *)
(***************************************************************************)

PARTICLE_RADIUS == 10
PARTICLE_DIAMETER == PARTICLE_RADIUS * 2
PARTICLE_X_SPACING == PARTICLE_RADIUS
LAYOUT_BOUNDS_WIDTH == 1024
X_DISTANCE_BETWEEN_ENERGY_LEVELS == LAYOUT_BOUNDS_WIDTH \div 4
MAX_STACK_HEIGHT == 260
COUNTED_X_SHIFT == 60

NUMBER_OF_Y_SPACINGS ==
  IF NUMBER_OF_ENERGY_LEVELS - 1 > 0 THEN NUMBER_OF_ENERGY_LEVELS - 1 ELSE 0

\* the unit of the view coordinates: 1 view unit = ViewUnit model integers
ViewUnit == IF NUMBER_OF_Y_SPACINGS > 0 THEN NUMBER_OF_Y_SPACINGS ELSE 1

\* rowStep * ViewUnit
rowStep ==
  IF NUMBER_OF_Y_SPACINGS > 0
    THEN IF PARTICLE_DIAMETER * 5 * ViewUnit < MAX_STACK_HEIGHT
           THEN PARTICLE_DIAMETER * 5 * ViewUnit
           ELSE MAX_STACK_HEIGHT
    ELSE PARTICLE_DIAMETER * 5 * ViewUnit

\* PARTICLE_Y_SPACING * ViewUnit
PARTICLE_Y_SPACING ==
  IF rowStep - PARTICLE_DIAMETER * ViewUnit > 0
    THEN rowStep - PARTICLE_DIAMETER * ViewUnit
    ELSE 0

\* the inverted-y rectangle mapping: x scale (D + xSpacing), y scale -(D + ySpacing),
\* model y = NUMBER_OF_Y_SPACINGS mapped to view y = 0
modelToViewX(x) == x * (PARTICLE_DIAMETER + PARTICLE_X_SPACING) * ViewUnit

\* the mapping without the inversion term: every row at the height of row 0
modelToViewYOfRowZero(y) ==
  NUMBER_OF_Y_SPACINGS * (PARTICLE_DIAMETER * ViewUnit + PARTICLE_Y_SPACING)

modelToViewY(y) ==
  (NUMBER_OF_Y_SPACINGS - y) * (PARTICLE_DIAMETER * ViewUnit + PARTICLE_Y_SPACING)

modelToViewXY(x, y) == [x |-> modelToViewX(x), y |-> modelToViewY(y)]

addXY(v, dx, dy) == [x |-> v.x + dx * ViewUnit, y |-> v.y + dy * ViewUnit]

\* the destination of a particle that was never given one
NoDestination == [x |-> -1, y |-> -1]

(***************************************************************************)
(* Slot tables                                                             *)
(***************************************************************************)

\* a table as the constructor builds it: every allowed slot, no occupant
EmptyShellPositions ==
  [row \in Rows |-> [x \in 0 .. (capacity(row) - 1) |-> NoParticle]]

RowSeq(shellRow, n) == [j \in 1 .. n |-> shellRow[j - 1]]

RECURSIVE FlatFrom(_, _)
\* the occupants of the rows r .. L-1 in row-major order
FlatFrom(table, r) ==
  IF r >= NUMBER_OF_ENERGY_LEVELS THEN << >>
  ELSE RowSeq(table[r], capacity(r)) \o FlatFrom(table, r + 1)

\* particleShellPositions.flat().map( p => p.particle )
flat(table) == FlatFrom(table, 0)

\* a nucleus value: both tables, the particles' destinations and inputEnabled
\* flags, and the failed assertion, if any
Nucleus(protonTable, neutronTable, dest, enabled, fail) ==
  [shells |-> [proton |-> protonTable, neutron |-> neutronTable],
   destination |-> dest, inputEnabled |-> enabled, failure |-> fail]

getNucleonShellPositions(nu, particleType) ==
  IF particleType = NEUTRON THEN nu.shells.neutron ELSE nu.shells.proton

\* each type is given the table of the other type
TableKeySwapped(particleType) == IF particleType = NEUTRON THEN PROTON ELSE NEUTRON

TableKey(particleType) == IF particleType = NEUTRON THEN NEUTRON ELSE PROTON

xOffsetOf(particleType) ==
  IF particleType = NEUTRON THEN X_DISTANCE_BETWEEN_ENERGY_LEVELS ELSE 0

(***************************************************************************)
(* Evaluation order.  The source is imperative: each statement works on    *)
(* the value the previous one left.  Only({body : v \in {e}}) is "let v be *)
(* the value of e in body" with e evaluated once, before body.             *)
(***************************************************************************)

Only(S) == CHOOSE v \in S : TRUE

(***************************************************************************)
(* getParticleDestination                                                  *)
(***************************************************************************)

RECURSIVE findOpenFromOrLast(_, _, _)
\* the search falls back to the last slot of the row when none is open
findOpenFromOrLast(shellRow, x, n) ==
  IF x >= n THEN n - 1
  ELSE IF shellRow[x] = NoParticle THEN x
  ELSE findOpenFromOrLast(shellRow, x + 1, n)

RECURSIVE findOpenFrom(_, _, _)
\* the x of the first slot of shellRow at or after x that has no occupant, -1 if none
findOpenFrom(shellRow, x, n) ==
  IF x >= n THEN -1
  ELSE IF shellRow[x] = NoParticle THEN x
  ELSE findOpenFrom(shellRow, x + 1, n)

\* the last open slot of the row in place of the first
openPositionInRowLast(table, row) ==
  IF \A x \in DOMAIN table[row] : table[row][x] # NoParticle THEN -1
  ELSE CHOOSE x \in DOMAIN table[row] :
         /\ table[row][x] = NoParticle
         /\ \A x2 \in DOMAIN table[row] : table[row][x2] = NoParticle => x2 <= x

\* row.filter( defined ).find( p => p.particle === undefined ): the x of the
\* first open slot of the row, -1 when the row has none
openPositionInRow(table, row) == findOpenFrom(table[row], 0, capacity(row))

RECURSIVE findOpenRowFrom(_, _)
findOpenRowFrom(table, row) ==
  IF row >= NUMBER_OF_ENERGY_LEVELS THEN -1
  ELSE IF openPositionInRow(table, row) # -1 THEN row
  ELSE findOpenRowFrom(table, row + 1)

\* openPositionsByRow.find( pos => pos !== undefined ), with the rowIndex the
\* callback leaves behind; -1 when no row has an open slot
openRowIndex(table) == findOpenRowFrom(table, 0)

\* the particle is written to the open slot found in every row, not only to the
\* one of the first row that has one
getParticleDestinationEveryRow(nu0, particleType, particle) ==
  Only({
    Only({
      IF rowIndex = -1
        THEN [nu |-> [nu EXCEPT !.failure = "noOpenSlot"],
              viewDestination |-> NoDestination]
        ELSE [nu |-> [nu EXCEPT !.shells[TableKey(particleType)] =
                        [row \in Rows |->
                           IF openPositionInRow(@, row) = -1 THEN @[row]
                           ELSE [@[row] EXCEPT ![openPositionInRow(
                                    getNucleonShellPositions(nu, particleType), row)] = particle]]],
              viewDestination |->
                addXY(modelToViewXY(openPositionInRow(getNucleonShellPositions(nu, particleType),
                                                      rowIndex), rowIndex),
                      xOffsetOf(particleType), 0)]
      : rowIndex \in {openRowIndex(getNucleonShellPositions(nu, particleType))} })
    : nu \in {nu0} })

\* Reserve the next open slot of the table of particleType for particle.
\* The result is the nucleus after the call and the Vector2 returned; when no
\* slot is open the call throws (the assertion, or the write through the
\* undefined openShellPosition) and no slot is changed.
getParticleDestination(nu0, particleType, particle) ==
  Only({
    Only({
      IF rowIndex = -1
        THEN [nu |-> [nu EXCEPT !.failure = "noOpenSlot"],
              viewDestination |-> NoDestination]
        ELSE Only({
               [nu |-> [nu EXCEPT !.shells[TableKey(particleType)][rowIndex][xPosition] = particle],
                viewDestination |->
                  addXY(modelToViewXY(xPosition, rowIndex), xOffsetOf(particleType), 0)]
               : xPosition \in {openPositionInRow(getNucleonShellPositions(nu, particleType),
                                                  rowIndex)} })
      : rowIndex \in {openRowIndex(getNucleonShellPositions(nu, particleType))} })
    : nu \in {nu0} })

(***************************************************************************)
(* removeParticleFromShell / clearAllShellPositionParticles                *)
(***************************************************************************)

\* the comparison made on the particle's type instead of the particle
withoutParticleOfType(table, particle) ==
  [row \in Rows |->
     [x \in DOMAIN table[row] |->
        IF table[row][x].type = particle.type THEN NoParticle ELSE table[row][x]]]

\* the table with every slot whose occupant is the particle cleared
withoutParticle(table, particle) ==
  [row \in Rows |->
     [x \in DOMAIN table[row] |->
        IF table[row][x] = particle THEN NoParticle ELSE table[row][x]]]

\* the table is looked up with a type that never matches NEUTRON
removeParticleFromShellProtonTable(nu0, particle) ==
  Only({ [nu EXCEPT !.shells[PROTON] = withoutParticle(nu.shells[PROTON], particle)]
         : nu \in {nu0} })

\* clear every slot of the table of the particle's type whose occupant is the particle
removeParticleFromShell(nu0, particle) ==
  Only({ [nu EXCEPT !.shells[TableKey(particle.type)] =
            withoutParticle(nu.shells[TableKey(particle.type)], particle)]
         : nu \in {nu0} })

\* a clearing that leaves every occupant in its slot
clearNoShellPositionParticles(table) == table

clearAllShellPositionParticles(table) ==
  [row \in Rows |-> [x \in DOMAIN table[row] |-> NoParticle]]

(***************************************************************************)
(* updateNucleonPositions                                                  *)
(***************************************************************************)

\* a first loop that remembers every occupant, counted or not
incomingParticlesOfAll(table, particleArray) ==
  SelectSeq(flat(table), LAMBDA p : p # NoParticle)

\* the first loop: the occupants that are not counted, in row-major order
incomingParticlesOf(table, particleArray) ==
  SelectSeq(flat(table), LAMBDA p : p # NoParticle /\ ~includes(particleArray, p))

\* a first loop that clears only the slots of counted particles
clearedCountedOnly(table, particleArray) ==
  [row \in Rows |->
     [x \in DOMAIN table[row] |->
        IF includes(particleArray, table[row][x]) THEN NoParticle ELSE table[row][x]]]

\* the first loop: every slot of the table is cleared
clearedSlots(table, particleArray) ==
  [row \in Rows |-> [x \in DOMAIN table[row] |-> NoParticle]]

\* the body of particleArray.forEach( ( particle, index ) => ... )
placeParticle(nu, key, particle, index, reachedRowIndex, xOffset) ==
  Only({
    Only({
      IF xIndex \notin DOMAIN nu.shells[key][rowIndex]
        THEN \* shellPos is undefined: the write to shellPos.particle throws
             [nu EXCEPT !.failure = "undefinedShellPosition"]
        ELSE [nu EXCEPT
                !.shells[key][rowIndex][xIndex] = particle,
                !.destination[particle] =
                   addXY(modelToViewXY(xIndex, rowIndex), xOffset + COUNTED_X_SHIFT, 0),
                !.inputEnabled[particle] = TRUE]
      : xIndex \in {getLocalXIndex(index, rowIndex)} })
    : rowIndex \in {getRowIndexForGlobalIndex(index)} })

RECURSIVE PlaceCountedSkipsLast(_, _, _, _, _, _, _)
\* the loop stops one particle short of the end of the array
PlaceCountedSkipsLast(nu0, key, particleArray, from, to, reachedRowIndex, xOffset) ==
  IF from >= to \/ nu0.failure # "none" THEN nu0
  ELSE IF to = from + 1
    THEN IF from = Len(particleArray) - 1
           THEN nu0
           ELSE IF RowIndexOutOfRange(from)
             THEN [nu0 EXCEPT !.failure = "indexOutOfRange"]
             ELSE placeParticle(nu0, key, particleArray[from + 1], from, reachedRowIndex, xOffset)
    ELSE Only({ PlaceCountedSkipsLast(firstHalf, key, particleArray, (from + to) \div 2, to,
                                      reachedRowIndex, xOffset)
                : firstHalf \in {PlaceCountedSkipsLast(nu0, key, particleArray, from,
                                                        (from + to) \div 2,
                                                        reachedRowIndex, xOffset)} })

RECURSIVE PlaceCounted(_, _, _, _, _, _, _)
\* particleArray.forEach( ( particle, index ) => ... ) for the indices from .. to-1,
\* in ascending order: the first half of the range, then the second.
\* An index beyond the table ends the call with an exception: the assertion of
\* getRowIndexForGlobalIndex, or the write through the undefined shellPos.
PlaceCounted(nu0, key, particleArray, from, to, reachedRowIndex, xOffset) ==
  IF from >= to \/ nu0.failure # "none" THEN nu0
  ELSE IF to = from + 1
    THEN IF RowIndexOutOfRange(from)
           THEN [nu0 EXCEPT !.failure = "indexOutOfRange"]
           ELSE placeParticle(nu0, key, particleArray[from + 1], from, reachedRowIndex, xOffset)
    ELSE Only({ PlaceCounted(firstHalf, key, particleArray, (from + to) \div 2, to,
                             reachedRowIndex, xOffset)
                : firstHalf \in {PlaceCounted(nu0, key, particleArray, from, (from + to) \div 2,
                                               reachedRowIndex, xOffset)} })

\* the occupants the duplicate check looks at
placedOf(table, incomingParticles) ==
  SelectSeq(flat(table), LAMBDA p : p # NoParticle /\ ~includes(incomingParticles, p))

\* _.uniq( placed ).length === placed.length
noDuplicates(placed) == Cardinality({placed[k] : k \in 1 .. Len(placed)}) = Len(placed)

\* only the first of the incoming particles gets its reservation back
RestoreFirstReservation(nu0, incomingParticles, k) ==
  IF Len(incomingParticles) = 0 THEN nu0
  ELSE Only({ [res.nu EXCEPT !.destination[incomingParticles[1]] = res.viewDestination]
              : res \in {getParticleDestination(nu0, incomingParticles[1].type,
                                                incomingParticles[1])} })

RECURSIVE RestoreReservations(_, _, _)
\* incomingParticles.forEach( particle => particle.destinationProperty.value =
\*   this.getParticleDestination( typeOf( particle ), particle ) )
RestoreReservations(nu0, incomingParticles, k) ==
  IF k > Len(incomingParticles) THEN nu0
  ELSE Only({
         IF res.nu.failure # "none"
           THEN res.nu
           ELSE Only({ RestoreReservations(restored, incomingParticles, k + 1)
                       : restored \in {[res.nu EXCEPT !.destination[incomingParticles[k]] =
                                          res.viewDestination]} })
         : res \in {getParticleDestination(nu0, incomingParticles[k].type,
                                           incomingParticles[k])} })

\* particleShellPositions is the table named by key
updateNucleonPositions(nu0, particleArray, key, reachedRowIndex, xOffset) ==
  Only({
    Only({
      IF counted.failure # "none" THEN counted
      ELSE IF ~noDuplicates(placedOf(counted.shells[key], incomingParticles))
        THEN [counted EXCEPT !.failure = "duplicateParticles"]
        ELSE RestoreReservations(counted, incomingParticles, 1)
      : counted \in {PlaceCounted(
                       [nu0 EXCEPT !.shells[key] = clearedSlots(nu0.shells[key], particleArray)],
                       key, particleArray, 0, Len(particleArray), reachedRowIndex, xOffset)} })
    : incomingParticles \in {incomingParticlesOf(nu0.shells[key], particleArray)} })

\* reconfigureNucleus: the protons, then the neutrons
reconfigureNucleus(nu0, protonArray, neutronArray, protonsReached, neutronsReached) ==
  Only({
    IF afterProtons.failure # "none" THEN afterProtons
    ELSE updateNucleonPositions(afterProtons, neutronArray, NEUTRON, neutronsReached,
                                X_DISTANCE_BETWEEN_ENERGY_LEVELS)
    : afterProtons \in {updateNucleonPositions(nu0, protonArray, PROTON, protonsReached, 0)} })

(***************************************************************************)
(* State                                                                   *)
(***************************************************************************)

VARIABLES
  protons,                   \* particleAtom.protons, in insertion order
  neutrons,                  \* particleAtom.neutrons, in insertion order
  protonShellPositions,      \* [row][x] -> occupant
  neutronShellPositions,     \* [row][x] -> occupant
  protonsReachedRowIndex,    \* protonsReachedRowIndexProperty.value
  neutronsReachedRowIndex,   \* neutronsReachedRowIndexProperty.value
  destination,               \* particle -> destinationProperty.value
  inputEnabled,              \* particle -> inputEnabledProperty.value
  failure,                   \* the exception that ended the last call, or "none"
  lastOp,                    \* the last call made and the particle it was given
  beforeReserve,             \* the two tables before the last getParticleDestination, kept while
                             \* the calls since are that call and the release of its particle
  calc,                      \* a call of one of the row-index helpers: its input and results
  banModel                   \* the fields of BANModel and the animation listeners of the view

vars == << protons, neutrons, protonShellPositions, neutronShellPositions,
           protonsReachedRowIndex, neutronsReachedRowIndex, destination,
           inputEnabled, failure, lastOp, beforeReserve, calc, banModel >>

\* the current nucleus value
Nu == Nucleus(protonShellPositions, neutronShellPositions, destination, inputEnabled, failure)

\* the whole ShellModelNucleus as one value
Atom == [protons |-> protons, neutrons |-> neutrons,
         protonsReached |-> protonsReachedRowIndex,
         neutronsReached |-> neutronsReachedRowIndex,
         nu |-> Nu]

Shells == [proton |-> protonShellPositions, neutron |-> neutronShellPositions]

countedArray(atom, particleType) ==
  IF particleType = NEUTRON THEN atom.neutrons ELSE atom.protons

\* a test that finds no particle in the atom
containsParticleNever(atom, particle) == FALSE

containsParticle(atom, particle) ==
  includes(atom.protons, particle) \/ includes(atom.neutrons, particle)

(***************************************************************************)
(* Listeners of the constructor and of BANModel                            *)
(***************************************************************************)

\* the nucleus is not reconfigured
massNumberListenerMissing(atom0) == atom0

\* massNumberProperty.link( () => particleAtom.reconfigureNucleus() )
massNumberListener(atom0) ==
  Only({ [atom EXCEPT !.nu = reconfigureNucleus(atom.nu, atom.protons, atom.neutrons,
                                                atom.protonsReached, atom.neutronsReached)]
         : atom \in {atom0} })

reachedOf(atom, particleType) ==
  IF particleType = NEUTRON THEN atom.neutronsReached ELSE atom.protonsReached

\* the reached-row property of the type is set; its link repositions the type
\* when the value changes
setReached(atom0, particleType, reached) ==
  Only({
    Only({
      IF reached = reachedOf(atom, particleType) \/ atom.nu.failure # "none" THEN set
      ELSE [set EXCEPT !.nu = updateNucleonPositions(set.nu, countedArray(set, particleType),
                                  TableKey(particleType), reached, xOffsetOf(particleType))]
      : set \in {IF particleType = NEUTRON
                   THEN [atom EXCEPT !.neutronsReached = reached]
                   ELSE [atom EXCEPT !.protonsReached = reached]} })
    : atom \in {atom0} })

\* the reached row is not set when the count changes
countListenerMissing(atom0, particleType) == atom0

\* protonCountProperty.link / neutronCountProperty.link
countListener(atom0, particleType) ==
  Only({ setReached(atom, particleType,
                    getReachedRowIndexForCount(Len(countedArray(atom, particleType))))
         : atom \in {atom0} })

\* what runs when the number of counted particles of particleType has changed
countChanged(atom0, particleType) ==
  Only({ countListener(atom, particleType) : atom \in {massNumberListener(atom0)} })

(***************************************************************************)
(* Operations of ShellModelNucleus on the whole atom value                 *)
(***************************************************************************)

\* ParticleAtom.addParticle of a particle that is not yet counted: push,
\* listeners, and the reconfigureNucleus call that ends addParticle
addParticle(atom, particle) ==
  Only({
    IF notified.nu.failure # "none" THEN notified ELSE massNumberListener(notified)
    : notified \in {countChanged(
                      IF particle.type = NEUTRON
                        THEN [atom EXCEPT !.neutrons = Append(atom.neutrons, particle)]
                        ELSE [atom EXCEPT !.protons = Append(atom.protons, particle)],
                      particle.type)} })

removeFromArray(array, particle) == SelectSeq(array, LAMBDA q : q # particle)

\* removeParticle without the release of the particle's slot
removeParticleKeepingSlot(atom, particle) ==
  countChanged(
    IF particle.type = NEUTRON
      THEN [atom EXCEPT !.neutrons = removeFromArray(atom.neutrons, particle)]
      ELSE [atom EXCEPT !.protons = removeFromArray(atom.protons, particle)],
    particle.type)

\* ShellModelNucleus.removeParticle of a counted particle
removeParticle(atom, particle) ==
  countChanged(
    IF particle.type = NEUTRON
      THEN [atom EXCEPT !.nu = removeParticleFromShell(atom.nu, particle),
                        !.neutrons = removeFromArray(atom.neutrons, particle)]
      ELSE [atom EXCEPT !.nu = removeParticleFromShell(atom.nu, particle),
                        !.protons = removeFromArray(atom.protons, particle)],
    particle.type)

RECURSIVE removeAll(_, _, _)
\* ParticleAtom.clear: every particle of the copied array is removed in turn
removeAll(atom, array, k) ==
  IF k > Len(array) \/ atom.nu.failure # "none" THEN atom
  ELSE Only({ removeAll(removed, array, k + 1)
              : removed \in {removeParticle(atom, array[k])} })

\* ShellModelNucleus.clear
clear(atom) ==
  Only({
    Only({
      Only({ removeAll(noProtons, emptied.neutrons, 1)
             : noProtons \in {removeAll(emptied, emptied.protons, 1)} })
      : emptied \in {[reset EXCEPT
           !.nu.shells.proton = clearAllShellPositionParticles(reset.nu.shells.proton),
           !.nu.shells.neutron = clearAllShellPositionParticles(reset.nu.shells.neutron)]} })
    : reset \in {setReached(setReached(atom, PROTON, 0), NEUTRON, 0)} })

(***************************************************************************)
(* Main specification: any sequence of calls on one ShellModelNucleus,     *)
(* with MaxId particle identities of each type.                            *)
(***************************************************************************)

MainParticles ==
  [type : {PROTON}, id : 1 .. MaxId] \cup [type : {NEUTRON}, id : 1 .. MaxNeutronId]

NoSnapshot == [proton |-> << >>, neutron |-> << >>]

\* BANModel as constructed: no particle, nothing incoming, outgoing or dragged.
\* removalPending holds the particles whose own animation ends in
\* model.removeParticle, fading those whose fade animation does;
\* undo holds the counts the undo button would restore; query holds the numbers of
\* protons and neutrons the screen is populated with.
NoUndo == [shown |-> FALSE, protons |-> 0, neutrons |-> 0]

NoBANModel ==
  [particles |-> {}, incomingProtons |-> {}, incomingNeutrons |-> {},
   outgoingParticles |-> {}, userControlledProtons |-> {}, userControlledNeutrons |-> {},
   removalPending |-> {}, fading |-> {}, undo |-> NoUndo,
   query |-> [protons |-> 0, neutrons |-> 0], operations |-> 0,
   miniProtons |-> 0, miniNeutrons |-> 0,
   timeSinceCountdownStarted |-> 0, previousProtonNumber |-> 0, previousNeutronNumber |-> 0,
   correctingNonexistentNuclide |-> TRUE, nuclides |-> {}]

\* no helper call is being followed
NoCalc == [fn |-> "none", input |-> 0, phase |-> "none", row |-> 0, localX |-> 0,
           threw |-> FALSE]

\* wasInShell: the particle held a slot when the call was made
\* repeated: the call before it was the same call
Op(name, particle, wasInShell) ==
  [op |-> name, particle |-> particle, wasInShell |-> wasInShell, repeated |-> FALSE]

occupies(table, particle) ==
  \E row \in Rows : \E x \in DOMAIN table[row] : table[row][x] = particle

inShell(shells, particle) ==
  occupies(shells.proton, particle) \/ occupies(shells.neutron, particle)

\* the variables of the atom take the values of the atom value a
SetAtom(a) ==
  /\ protons' = a.protons
  /\ neutrons' = a.neutrons
  /\ protonsReachedRowIndex' = a.protonsReached
  /\ neutronsReachedRowIndex' = a.neutronsReached
  /\ protonShellPositions' = a.nu.shells.proton
  /\ neutronShellPositions' = a.nu.shells.neutron
  /\ destination' = a.nu.destination
  /\ inputEnabled' = a.nu.inputEnabled
  /\ failure' = a.nu.failure

\* the atom as constructed; particles are the identities the specification uses
EmptyAtom(particles) ==
  [protons |-> << >>, neutrons |-> << >>,
   protonsReached |-> 0, neutronsReached |-> 0,
   nu |-> Nucleus(EmptyShellPositions, EmptyShellPositions,
                  [p \in particles |-> NoDestination], [p \in particles |-> TRUE], "none")]

\* the variables of the atom have the values of the atom value a
AtomIs(a) ==
  /\ protons = a.protons
  /\ neutrons = a.neutrons
  /\ protonsReachedRowIndex = a.protonsReached
  /\ neutronsReachedRowIndex = a.neutronsReached
  /\ protonShellPositions = a.nu.shells.proton
  /\ neutronShellPositions = a.nu.shells.neutron
  /\ destination = a.nu.destination
  /\ inputEnabled = a.nu.inputEnabled
  /\ failure = a.nu.failure

InitAtom(particles) == \E a \in {EmptyAtom(particles)} : AtomIs(a)

Init ==
  /\ InitAtom(MainParticles)
  /\ lastOp = Op("init", NoParticle, FALSE)
  /\ beforeReserve = NoSnapshot
  /\ banModel = NoBANModel
  /\ calc = NoCalc

\* a new particle is sent to the nucleus: it reserves the next open slot and
\* takes the returned destination
GetParticleDestination(particle) ==
  /\ failure = "none"
  /\ ~containsParticle(Atom, particle)
  /\ ~inShell(Shells, particle)
  /\ LET res == getParticleDestination(Nu, particle.type, particle)
     IN \E a \in {[Atom EXCEPT !.nu =
                   IF res.nu.failure # "none" THEN res.nu
                   ELSE [res.nu EXCEPT !.destination[particle] = res.viewDestination]]} :
          SetAtom(a)
  /\ lastOp' = Op("getParticleDestination", particle, inShell(Shells, particle))
  /\ beforeReserve' = Shells
  /\ UNCHANGED << calc, banModel >>

\* a particle that is not counted joins the atom (it arrives, or it is dropped)
AddParticle(particle) ==
  /\ failure = "none"
  /\ ~containsParticle(Atom, particle)
  /\ \E a \in {addParticle(Atom, particle)} : SetAtom(a)
  /\ lastOp' = Op("addParticle", particle, inShell(Shells, particle))
  /\ beforeReserve' = NoSnapshot
  /\ UNCHANGED << calc, banModel >>

\* A particle that is in no array and in no slot is gone: BANModel.removeParticle
\* disposes of it, and its identity stands for a new BANParticle from then on.
dispose(atom0, particle) ==
  Only({ IF \/ containsParticle(atom, particle) \/ inShell(atom.nu.shells, particle)
            \/ particle \notin DOMAIN atom.nu.destination
           THEN atom
           ELSE [atom EXCEPT !.nu.destination[particle] = NoDestination,
                             !.nu.inputEnabled[particle] = TRUE]
         : atom \in {atom0} })

\* a counted particle is removed from the atom
RemoveParticle(particle) ==
  /\ failure = "none"
  /\ containsParticle(Atom, particle)
  /\ \E a \in {dispose(removeParticle(Atom, particle), particle)} : SetAtom(a)
  /\ lastOp' = Op("removeParticle", particle, inShell(Shells, particle))
  /\ beforeReserve' = NoSnapshot
  /\ UNCHANGED << calc, banModel >>

\* ParticleAtom.extractParticle: the last counted particle of the type is removed
ExtractParticle(particleType) ==
  /\ failure = "none"
  /\ Len(countedArray(Atom, particleType)) > 0
  /\ LET array == countedArray(Atom, particleType)
         particle == array[Len(array)]
     IN /\ \E a \in {dispose(removeParticle(Atom, particle), particle)} : SetAtom(a)
        /\ lastOp' = Op("extractParticle", particle, inShell(Shells, particle))
  /\ beforeReserve' = NoSnapshot
  /\ UNCHANGED << calc, banModel >>

\* the slot of a particle is released
RemoveParticleFromShell(particle) ==
  /\ failure = "none"
  /\ \E a \in {dispose([Atom EXCEPT !.nu = removeParticleFromShell(Nu, particle)], particle)} : SetAtom(a)
  /\ lastOp' = Op("removeParticleFromShell", particle, inShell(Shells, particle))
  /\ beforeReserve' = IF lastOp.op = "getParticleDestination" /\ lastOp.particle = particle
                        THEN beforeReserve
                        ELSE NoSnapshot
  /\ UNCHANGED << calc, banModel >>

ReconfigureNucleus ==
  /\ failure = "none"
  /\ \E a \in {massNumberListener(Atom)} : SetAtom(a)
  /\ lastOp' = [Op("reconfigureNucleus", NoParticle, FALSE)
                  EXCEPT !.repeated = (lastOp.op = "reconfigureNucleus")]
  /\ beforeReserve' = NoSnapshot
  /\ UNCHANGED << calc, banModel >>

RECURSIVE disposeAll(_, _)
disposeAll(atom, particles) ==
  IF particles = {} THEN atom
  ELSE Only({ disposeAll(dispose(atom, particle), particles \ {particle})
              : particle \in {CHOOSE q \in particles : TRUE} })

Clear ==
  /\ failure = "none"
  /\ \E a \in {disposeAll(clear(Atom), MainParticles)} : SetAtom(a)
  /\ lastOp' = Op("clear", NoParticle, FALSE)
  /\ beforeReserve' = NoSnapshot
  /\ UNCHANGED << calc, banModel >>

Next ==
  \/ \E particle \in MainParticles : GetParticleDestination(particle)
  \/ \E particle \in MainParticles : AddParticle(particle)
  \/ \E particle \in MainParticles : RemoveParticle(particle)
  \/ \E particleType \in ParticleTypes : ExtractParticle(particleType)
  \/ \E particle \in {p \in MainParticles : inShell(Shells, p)} :
       RemoveParticleFromShell(particle)
  \/ ReconfigureNucleus
  \/ Clear

Spec == Init /\ [][Next]_vars

(***************************************************************************)
(* SpecIndex: the row-index helpers as pure functions.  Init draws the     *)
(* argument; the actions apply getRowIndexForGlobalIndex, getLocalXIndex   *)
(* and getReachedRowIndexForCount to it.                                   *)
(***************************************************************************)

\* how far beyond the table (and below zero) the arguments are drawn
MaxBeyond == 2

IndexInputs == 0 .. (TOTAL_CAPACITY + MaxBeyond)
CountInputs == (0 - MaxBeyond) .. (TOTAL_CAPACITY + MaxBeyond)

InitIndex ==
  /\ InitAtom({})
  /\ lastOp = Op("init", NoParticle, FALSE)
  /\ beforeReserve = NoSnapshot
  /\ banModel = NoBANModel
  /\ \/ \E i \in IndexInputs :
          calc = [fn |-> "getRowIndexForGlobalIndex", input |-> i, phase |-> "input",
                  row |-> 0, localX |-> 0, threw |-> FALSE]
     \/ \E n \in CountInputs :
          calc = [fn |-> "getReachedRowIndexForCount", input |-> n, phase |-> "input",
                  row |-> 0, localX |-> 0, threw |-> FALSE]

AtomUnchanged ==
  UNCHANGED << protons, neutrons, protonShellPositions, neutronShellPositions,
               protonsReachedRowIndex, neutronsReachedRowIndex, destination,
               inputEnabled, failure, lastOp, beforeReserve, banModel >>

\* getRowIndexForGlobalIndex( input ) returns
ComputeRow ==
  /\ calc.fn = "getRowIndexForGlobalIndex"
  /\ calc.phase = "input"
  /\ calc' = [calc EXCEPT !.phase = "row", !.row = getRowIndexForGlobalIndex(calc.input)]
  /\ AtomUnchanged

\* getRowIndexForGlobalIndex( input ) reaches assert( false ) in a build with
\* assertions; a build without them goes on to return the last row (ComputeRow)
ComputeRowThrows ==
  /\ calc.fn = "getRowIndexForGlobalIndex"
  /\ calc.phase = "input"
  /\ RowIndexOutOfRange(calc.input)
  /\ calc' = [calc EXCEPT !.phase = "row", !.threw = TRUE]
  /\ AtomUnchanged

\* getLocalXIndex( input, row ) with the row just computed
ComputeLocalX ==
  /\ calc.fn = "getRowIndexForGlobalIndex"
  /\ calc.phase = "row"
  /\ ~calc.threw
  /\ calc' = [calc EXCEPT !.phase = "localX", !.localX = getLocalXIndex(calc.input, calc.row)]
  /\ AtomUnchanged

\* getReachedRowIndexForCount( input ) returns
ComputeReached ==
  /\ calc.fn = "getReachedRowIndexForCount"
  /\ calc.phase = "input"
  /\ calc' = [calc EXCEPT !.phase = "row", !.row = getReachedRowIndexForCount(calc.input)]
  /\ AtomUnchanged

NextIndex ==
  \/ ComputeRow
  \/ ComputeRowThrows
  \/ ComputeLocalX
  \/ ComputeReached

SpecIndex == InitIndex /\ [][NextIndex]_vars

(***************************************************************************)
(* SpecAssign: nuclei of every size.  Init draws a type, a number n of     *)
(* counted particles up to TOTAL_CAPACITY and the order in which n         *)
(* particles were added; the state is the one the n calls of addParticle   *)
(* leave.  Further particles are then sent to the nucleus or release      *)
(* their slot, and the nucleus is reconfigured.                            *)
(***************************************************************************)

AssignParticles(particleType) ==
  [type : {particleType}, id : 1 .. (TOTAL_CAPACITY + MaxReserve)]

\* the k-th order of 1 .. n: ascending, descending, rotated by k - 2
Ordering(k, n) ==
  [i \in 1 .. n |->
     IF k = 1 THEN i
     ELSE IF k = 2 THEN n + 1 - i
     ELSE ((i - 1 + (k - 2)) % n) + 1]

\* The atom after addParticle has been called for each element of array in
\* order, as an atom value: the array, the reached row of its length, and the
\* tables and destinations the last reconfigureNucleus of the last call leaves.
\* Every earlier call placed a prefix of the array in the same slots.
afterAdding(atom0, particleType, array) ==
  Only({ massNumberListener(withReached)
         : withReached \in {setReached(IF particleType = NEUTRON
                                         THEN [atom0 EXCEPT !.neutrons = array]
                                         ELSE [atom0 EXCEPT !.protons = array],
                                       particleType,
                                       getReachedRowIndexForCount(Len(array)))} })

InitAssign ==
  /\ \E particleType \in ParticleTypes :
       \E n \in 0 .. TOTAL_CAPACITY :
         \E k \in 1 .. MaxOrderings :
           \E a \in {afterAdding(EmptyAtom(AssignParticles(particleType)), particleType,
                                 [i \in 1 .. n |-> NewParticle(particleType, Ordering(k, n)[i])])} :
             AtomIs(a)
  /\ lastOp = Op("init", NoParticle, FALSE)
  /\ beforeReserve = NoSnapshot
  /\ banModel = NoBANModel
  /\ calc = NoCalc

\* the particles that are not counted when the specification starts
ReserveParticles == {p \in DOMAIN destination : p.id > TOTAL_CAPACITY}

\* the newest counted particle of each array
LastCounted ==
  {protons[k] : k \in {Len(protons)} \ {0}} \cup {neutrons[k] : k \in {Len(neutrons)} \ {0}}

RECURSIVE LastParticleLoopFirstInRow(_, _, _)
\* the loops of getLastParticleInShell with the slots of a row read from the left
LastParticleLoopFirstInRow(table, row, x) ==
  IF row < 0 THEN NoParticle
  ELSE IF x > capacity(row) - 1
    THEN LastParticleLoopFirstInRow(table, row - 1, 0)
    ELSE IF table[row][x] # NoParticle THEN table[row][x]
         ELSE LastParticleLoopFirstInRow(table, row, x + 1)

RECURSIVE LastParticleLoop(_, _, _)
\* the loops of getLastParticleInShell: rows from the last one down, the slots
\* of a row from the last one down; NoParticle stands for undefined
LastParticleLoop(table, row, x) ==
  IF row < 0 THEN NoParticle
  ELSE IF x < 0
    THEN LastParticleLoop(table, row - 1, IF row >= 1 THEN capacity(row - 1) - 1 ELSE 0 - 1)
    ELSE IF table[row][x] # NoParticle THEN table[row][x]
         ELSE LastParticleLoop(table, row, x - 1)

\* ShellModelNucleus.getLastParticleInShell
getLastParticleInShell(nu, particleType) ==
  LastParticleLoop(getNucleonShellPositions(nu, particleType),
                   NUMBER_OF_ENERGY_LEVELS - 1, capacity(NUMBER_OF_ENERGY_LEVELS - 1) - 1)

\* a call of getLastParticleInShell; the particle it returns is kept in lastOp
GetLastParticleInShell(particleType) ==
  /\ failure = "none"
  /\ lastOp' = Op("getLastParticleInShell", getLastParticleInShell(Nu, particleType), FALSE)
  /\ beforeReserve' = NoSnapshot
  /\ UNCHANGED << protons, neutrons, protonShellPositions, neutronShellPositions,
                  protonsReachedRowIndex, neutronsReachedRowIndex, destination,
                  inputEnabled, failure, calc, banModel >>

NextAssign ==
  \/ \E particle \in ReserveParticles : GetParticleDestination(particle)
  \/ \E particle \in ReserveParticles \cup LastCounted : RemoveParticleFromShell(particle)
  \/ ReconfigureNucleus
  \/ \E particleType \in ParticleTypes : GetLastParticleInShell(particleType)

SpecAssign == InitAssign /\ [][NextAssign]_vars

(***************************************************************************)
(* SpecReserve: a nucleus of one type with several incoming particles.     *)
(* The counted particles end a row, start one, or nearly fill the table;   *)
(* the incoming particles reserve and release slots, are added to the      *)
(* atom and extracted again.                                               *)
(***************************************************************************)

\* incoming (reserved, not counted) particles available to SpecReserve
MaxIncoming == 2

\* the numbers of counted particles SpecReserve starts with
ReserveCounts == {1, 2, 3, TOTAL_CAPACITY - 2}

InitReserve ==
  /\ \E particleType \in ParticleTypes :
       \E n \in ReserveCounts :
         \E a \in {afterAdding(
                     EmptyAtom([type : {particleType}, id : 1 .. (TOTAL_CAPACITY + MaxIncoming)]),
                     particleType, [i \in 1 .. n |-> NewParticle(particleType, i)])} :
           AtomIs(a)
  /\ lastOp = Op("init", NoParticle, FALSE)
  /\ beforeReserve = NoSnapshot
  /\ banModel = NoBANModel
  /\ calc = NoCalc

NextReserve ==
  \/ \E particle \in ReserveParticles : GetParticleDestination(particle)
  \/ \E particle \in ReserveParticles \cup LastCounted : RemoveParticleFromShell(particle)
  \/ ReconfigureNucleus
  \/ \E particle \in ReserveParticles : AddParticle(particle)
  \/ \E particle \in ReserveParticles \cap LastCounted : ExtractParticle(particle.type)

SpecReserve == InitReserve /\ [][NextReserve]_vars

(***************************************************************************)
(* The capacity table as the specification states it                       *)
(***************************************************************************)

RECURSIVE CumulativeCapacity(_)
\* capacity[0] + ... + capacity[r]
CumulativeCapacity(r) ==
  IF r < 0 THEN 0 ELSE (ENERGY_LEVELS[r + 1].j2 + 1) + CumulativeCapacity(r - 1)

\* the smallest row whose inclusive cumulative capacity exceeds i
SmallestRowAbove(i) ==
  CHOOSE r \in Rows :
    /\ CumulativeCapacity(r) > i
    /\ \A r2 \in Rows : CumulativeCapacity(r2) > i => r <= r2

RowCalcDone == calc.fn = "getRowIndexForGlobalIndex" /\ calc.phase \in {"row", "localX"} /\ ~calc.threw

\* C3: for every global index i in [0, TOTAL_CAPACITY), getRowIndexForGlobalIndex(i)
\* is the smallest row r with capacity[0] + ... + capacity[r] > i, and
\* getLocalXIndex(i, r) is i minus the capacity of the rows before r, which
\* lies in [0, capacity[r] - 1].
C3_RowAndLocalIndex ==
  (RowCalcDone /\ calc.input < TOTAL_CAPACITY) =>
     /\ calc.row = SmallestRowAbove(calc.input)
     /\ calc.phase = "localX" =>
          /\ calc.localX = calc.input - CumulativeCapacity(calc.row - 1)
          /\ calc.localX >= 0
          /\ calc.localX <= (ENERGY_LEVELS[calc.row + 1].j2 + 1) - 1

\* the last index of the table has been mapped to the last slot of the last row
C3_Witness ==
  /\ calc.fn = "getRowIndexForGlobalIndex"
  /\ calc.phase = "localX"
  /\ calc.input = TOTAL_CAPACITY - 1
  /\ calc.row = NUMBER_OF_ENERGY_LEVELS - 1
  /\ calc.localX = 1

\* C4: the shell table of the program, capacity = j2 + 1 over ENERGY_LEVELS in
\* order, is [2, 4, 2, 6, 2, 4, 8, 4, 6, 2], and on it getRowIndexForGlobalIndex
\* returns 0 for index 0, 0 for 1, 1 for 2, 1 for 5 and 2 for 6.
C4_ExampleTable ==
  /\ [k \in 1 .. NUMBER_OF_ENERGY_LEVELS |-> capacity(k - 1)] = <<2, 4, 2, 6, 2, 4, 8, 4, 6, 2>>
  /\ RowCalcDone =>
       /\ calc.input = 0 => calc.row = 0
       /\ calc.input = 1 => calc.row = 0
       /\ calc.input = 2 => calc.row = 1
       /\ calc.input = 5 => calc.row = 1
       /\ calc.input = 6 => calc.row = 2

\* index 6, the first index of the third row, has been mapped
C4_Witness ==
  /\ calc.fn = "getRowIndexForGlobalIndex"
  /\ calc.phase = "row"
  /\ calc.input = 6
  /\ calc.row = 2

(***************************************************************************)
(* Slots by global index, as the specification counts them: rows          *)
(* ascending, slots ascending within a row                                 *)
(***************************************************************************)

GlobalIndices == 0 .. (CumulativeCapacity(NUMBER_OF_ENERGY_LEVELS - 1) - 1)

\* global index -> its (row, slot) pair
GlobalSlotTable ==
  [i \in GlobalIndices |->
     [row |-> SmallestRowAbove(i), x |-> i - CumulativeCapacity(SmallestRowAbove(i) - 1)]]

\* the (row, slot) pair with global index i
GlobalSlot(i) == GlobalSlotTable[i]

OccupantAt(table, i) == table[GlobalSlot(i).row][GlobalSlot(i).x]

\* the global indices of the slots the particle occupies
IndicesOf(table, particle) == {i \in GlobalIndices : OccupantAt(table, i) = particle}

OccupiedIndices(table) == {i \in GlobalIndices : OccupantAt(table, i) # NoParticle}

\* the particle at position i of the array occupies the slot with global index i
ArrayInSlots(array, table) ==
  /\ Len(array) <= Cardinality(GlobalIndices)
  /\ \A i \in 0 .. (Len(array) - 1) : OccupantAt(table, i) = array[i + 1]

P1 == NewParticle(PROTON, 1)

P2 == NewParticle(PROTON, 2)

N1 == NewParticle(NEUTRON, 1)

\* C2: after any membership change of the counted particles (add, removeParticle,
\* extraction, clear), once the listeners have run, the particle at position i of
\* each ordered array occupies the slot with global index i of its table.
C2_TableFollowsMembership ==
  [][ (protons' # protons \/ neutrons' # neutrons) =>
        /\ failure' = "none"
        /\ ArrayInSlots(protons', protonShellPositions')
        /\ ArrayInSlots(neutrons', neutronShellPositions') ]_vars

\* the second proton was counted before the first and a neutron is counted too:
\* the slots follow the insertion order, not the identities
C2_Witness ==
  /\ lastOp.op = "addParticle"
  /\ protons = <<P2, P1>>
  /\ neutrons = <<N1>>
  /\ OccupantAt(protonShellPositions, 0) = P2
  /\ OccupantAt(protonShellPositions, 1) = P1
  /\ OccupantAt(neutronShellPositions, 0) = N1

\* C7: getParticleDestination(type, p) for a particle p that is not in the table,
\* when a slot is free, followed immediately by removeParticleFromShell(p), leaves
\* every slot of both tables with the occupant it had before.
C7_ReserveReleaseRoundTrip ==
  (lastOp.op = "removeParticleFromShell" /\ beforeReserve # NoSnapshot) =>
     Shells = beforeReserve

\* the round trip has been made on a table that held another particle
C7_Witness ==
  /\ lastOp = Op("removeParticleFromShell", P2, TRUE)
  /\ beforeReserve # NoSnapshot
  /\ OccupantAt(protonShellPositions, 0) = P1
  /\ OccupantAt(neutronShellPositions, 0) = N1
  /\ ~occupies(protonShellPositions, P2)

\* the first global index whose slot has no occupant
FirstFreeIndex(table) ==
  CHOOSE i \in GlobalIndices :
    /\ OccupantAt(table, i) = NoParticle
    /\ \A j \in GlobalIndices : j < i => OccupantAt(table, j) # NoParticle

\* the view coordinate of a (row, slot) pair of the table of the type
SlotCoordinate(particleType, slot) ==
  [x |-> (slot.x * (PARTICLE_DIAMETER + PARTICLE_X_SPACING)
            + (IF particleType = NEUTRON THEN X_DISTANCE_BETWEEN_ENERGY_LEVELS ELSE 0)) * ViewUnit,
   y |-> modelToViewY(slot.row)]

\* C8: getParticleDestination(type, p) claims for p the first slot in row-major
\* order that has no occupant, counted or reserved, changes no other slot, and the
\* coordinate it returns is the one of exactly that (row, slot) pair.
C8_FirstFreeSlotClaimed ==
  [][ (lastOp'.op = "getParticleDestination" /\ failure' = "none") =>
        LET p == lastOp'.particle
            key == TableKey(p.type)
            i == FirstFreeIndex(Shells[key])
        IN /\ Shells'[key] =
                [Shells[key] EXCEPT ![GlobalSlot(i).row][GlobalSlot(i).x] = p]
           /\ \A other \in ParticleTypes : other # key => Shells'[other] = Shells[other]
           /\ destination'[p] = SlotCoordinate(p.type, GlobalSlot(i)) ]_vars

\* the first proton has taken the free slot below the slot the second one holds
C8_Witness ==
  /\ lastOp = Op("getParticleDestination", P1, FALSE)
  /\ OccupantAt(protonShellPositions, 0) = P1
  /\ OccupantAt(protonShellPositions, 1) = P2
  /\ destination[P1] = SlotCoordinate(PROTON, [row |-> 0, x |-> 0])

\* C9: a particle that holds a reservation in a slot before updateNucleonPositions
\* runs and is not in the counted sequence holds that same (row, slot) afterwards.
C9_ReservationsKeptVerbatim ==
  [][ lastOp'.op \in {"reconfigureNucleus", "addParticle", "removeParticle", "extractParticle"} =>
        \A p \in DOMAIN destination :
          (/\ ~includes(protons, p) /\ ~includes(neutrons, p)
           /\ ~includes(protons', p) /\ ~includes(neutrons', p)) =>
             \A key \in ParticleTypes :
               IndicesOf(Shells[key], p) \subseteq IndicesOf(Shells'[key], p) ]_vars

\* C10: a particle that is in the counted sequence and still holds a reservation
\* when updateNucleonPositions runs ends in exactly one slot, the one given by its
\* position in the sequence; its old reserved slot is not kept for it.
C10_CountedReservationNotKept ==
  [][ (lastOp'.op = "addParticle" /\ lastOp'.wasInShell) =>
        LET p == lastOp'.particle
            array == IF p.type = NEUTRON THEN neutrons' ELSE protons'
            table == IF p.type = NEUTRON THEN neutronShellPositions' ELSE protonShellPositions'
            other == IF p.type = NEUTRON THEN protonShellPositions' ELSE neutronShellPositions'
        IN /\ failure' = "none"
           /\ \E k \in 1 .. Len(array) :
                array[k] = p /\ IndicesOf(table, p) = {k - 1}
           /\ IndicesOf(other, p) = {} ]_vars

\* the second proton held the second slot and was then counted first: it sits in
\* the first slot only, and the second slot holds the first proton's reservation
C10_Witness ==
  /\ lastOp = Op("addParticle", P2, TRUE)
  /\ protons = <<P2>>
  /\ IndicesOf(protonShellPositions, P2) = {0}
  /\ IndicesOf(protonShellPositions, P1) = {1}

(***************************************************************************)
(* Reassignment of whole arrays                                            *)
(***************************************************************************)

\* every occupant of both tables is a counted particle
NoReservations ==
  /\ \A i \in OccupiedIndices(protonShellPositions) :
       includes(protons, OccupantAt(protonShellPositions, i))
  /\ \A i \in OccupiedIndices(neutronShellPositions) :
       includes(neutrons, OccupantAt(neutronShellPositions, i))

\* no particle occupies two slots of the table
NoDoubleOccupant(table) ==
  \A i \in OccupiedIndices(table) : IndicesOf(table, OccupantAt(table, i)) = {i}

\* C1: for every N from 0 to TOTAL_CAPACITY and any sequence of N distinct
\* particles of one type, with no outstanding reservations, reconfigureNucleus
\* leaves exactly N slots of that type's table occupied and no particle in more
\* than one slot.
C1_ExactlyNSlots ==
  [][ (lastOp'.op = "reconfigureNucleus" /\ NoReservations
         /\ Len(protons) <= TOTAL_CAPACITY /\ Len(neutrons) <= TOTAL_CAPACITY) =>
        /\ failure' = "none"
        /\ Cardinality(OccupiedIndices(protonShellPositions')) = Len(protons')
        /\ Cardinality(OccupiedIndices(neutronShellPositions')) = Len(neutrons')
        /\ NoDoubleOccupant(protonShellPositions')
        /\ NoDoubleOccupant(neutronShellPositions') ]_vars

\* a full table: TOTAL_CAPACITY protons, added in descending order, reassigned
C1_Witness ==
  /\ lastOp.op = "reconfigureNucleus"
  /\ Len(protons) = TOTAL_CAPACITY
  /\ protons[1].id = TOTAL_CAPACITY
  /\ Cardinality(OccupiedIndices(protonShellPositions)) = TOTAL_CAPACITY
  /\ NoDoubleOccupant(protonShellPositions)

\* C5: running reconfigureNucleus twice in a row on the same ordered arrays, with
\* the same outstanding reservations, leaves every slot with the occupant it had
\* after the first run.
C5_ReassignIdempotent ==
  [][ (lastOp.op = "reconfigureNucleus" /\ lastOp'.op = "reconfigureNucleus") =>
        /\ failure' = "none"
        /\ Shells' = Shells ]_vars

\* the second of two runs in a row has been made on a nucleus of several rows
\* with an outstanding reservation
C5_Witness ==
  /\ lastOp.op = "reconfigureNucleus"
  /\ lastOp.repeated
  /\ Len(neutrons) > MAX_LEVEL_CAPACITY
  /\ ~NoReservations

\* the elements of the array in ascending order of identity
SortedById(array) ==
  Only({ [i \in 1 .. Len(array) |-> array[CHOOSE j \in 1 .. Len(array) : rank[j] = i - 1]]
         : rank \in {[j \in 1 .. Len(array) |->
                        Cardinality({m \in 1 .. Len(array) : array[m].id < array[j].id})]} })

FilledSlots(shells) == [key \in ParticleTypes |-> OccupiedIndices(shells[key])]

\* the filled (row, slot) pairs after reconfigureNucleus on the current tables
\* with the counted arrays in ascending order of identity
FilledWhenSorted ==
  Only({ FilledSlots(nu.shells)
         : nu \in {reconfigureNucleus(Nu, SortedById(protons), SortedById(neutrons),
                                      protonsReachedRowIndex, neutronsReachedRowIndex)} })

\* C6: for any two orderings of the same set of N counted particles,
\* reconfigureNucleus fills the same set of (row, slot) pairs: the pairs it fills
\* with the arrays in the order they have are the pairs it fills, from the same
\* tables, with the arrays in ascending order of identity.
C6_SameSlotsForEveryOrder ==
  [][ (lastOp'.op = "reconfigureNucleus" /\ failure' = "none") =>
        FilledSlots(Shells') = FilledWhenSorted ]_vars

\* a nucleus of several rows whose array is in descending order of identity has
\* been reassigned, with a reservation outstanding
C6_Witness ==
  /\ lastOp.op = "reconfigureNucleus"
  /\ failure = "none"
  /\ Len(protons) > MAX_LEVEL_CAPACITY
  /\ protons[1].id > protons[2].id
  /\ ~NoReservations
  /\ OccupiedIndices(protonShellPositions) = 0 .. Len(protons)

(***************************************************************************)
(* Release of a slot                                                       *)
(***************************************************************************)

\* the table with the slots the particle occupied emptied
Emptied(table, particle) ==
  [row \in DOMAIN table |->
     [x \in DOMAIN table[row] |->
        IF table[row][x] = particle THEN NoParticle ELSE table[row][x]]]

\* C11: removeParticleFromShell clears a slot only when its occupant is the given
\* particle and that particle is not counted: called on a counted particle, or on
\* a particle that holds no slot, it leaves the table unchanged.
C11_ReleaseSparesCounted ==
  [][ (/\ lastOp'.op = "removeParticleFromShell"
       /\ \/ includes(protons, lastOp'.particle)
          \/ includes(neutrons, lastOp'.particle)
          \/ ~inShell(Shells, lastOp'.particle)) =>
        Shells' = Shells ]_vars

\* C11, amended: removeParticleFromShell empties every slot of the table of the
\* particle's type whose occupant is the given particle, whether the particle is
\* counted or not, and changes no other slot; called on a particle that holds no
\* slot, it leaves both tables unchanged.
C11_ReleaseClearsOccupant ==
  [][ lastOp'.op = "removeParticleFromShell" =>
        /\ \A key \in ParticleTypes :
             Shells'[key] = IF key = lastOp'.particle.type
                              THEN Emptied(Shells[key], lastOp'.particle)
                              ELSE Shells[key]
        /\ ~inShell(Shells, lastOp'.particle) => Shells' = Shells
        /\ UNCHANGED << protons, neutrons >> ]_vars

\* the newest counted neutron of a nucleus of several rows has lost its slot
C11_Witness ==
  /\ lastOp.op = "removeParticleFromShell"
  /\ lastOp.wasInShell
  /\ Len(neutrons) > MAX_LEVEL_CAPACITY
  /\ lastOp.particle = neutrons[Len(neutrons)]
  /\ ~occupies(neutronShellPositions, lastOp.particle)
  /\ Cardinality(OccupiedIndices(neutronShellPositions)) = Len(neutrons) - 1

(***************************************************************************)
(* One slot per particle                                                   *)
(***************************************************************************)

\* the number of slots of both tables the particle occupies
SlotCount(particle) ==
  Cardinality(IndicesOf(protonShellPositions, particle))
    + Cardinality(IndicesOf(neutronShellPositions, particle))

\* C12: in every reachable state, after any sequence of getParticleDestination,
\* add, remove, removeParticleFromShell, reconfigureNucleus and clear, no particle
\* is the occupant of two slots, in one table or across the two tables.
C12_OneSlotPerParticle ==
  \A p \in DOMAIN destination : SlotCount(p) <= 1

\* a counted proton, a counted neutron and a proton holding a reservation each
\* occupy their one slot after the nucleus was reassigned
C12_Witness ==
  /\ lastOp.op = "addParticle"
  /\ protons = <<P2>>
  /\ neutrons = <<N1>>
  /\ SlotCount(P1) = 1
  /\ SlotCount(P2) = 1
  /\ SlotCount(N1) = 1

(***************************************************************************)
(* A full table                                                            *)
(***************************************************************************)

\* every slot of the table has an occupant
TableFull(table) == OccupiedIndices(table) = GlobalIndices

\* C13: getParticleDestination for a type whose every slot is occupied, counted
\* or reserved, ends in an error and assigns the particle to no slot; no call of
\* getParticleDestination overwrites an existing occupant.
C13_FullTableRefuses ==
  [][ lastOp'.op = "getParticleDestination" =>
        /\ TableFull(Shells[lastOp'.particle.type]) =>
             /\ failure' = "noOpenSlot"
             /\ Shells' = Shells
             /\ destination' = destination
        /\ \A key \in ParticleTypes :
             \A i \in OccupiedIndices(Shells[key]) :
               OccupantAt(Shells'[key], i) = OccupantAt(Shells[key], i) ]_vars

\* a further neutron was sent to a nucleus whose neutron table is full
C13_Witness ==
  /\ lastOp.op = "getParticleDestination"
  /\ lastOp.particle.type = NEUTRON
  /\ failure = "noOpenSlot"
  /\ TableFull(neutronShellPositions)
  /\ ~occupies(neutronShellPositions, lastOp.particle)

(***************************************************************************)
(* The row-index helpers beyond the table, and the reached row             *)
(***************************************************************************)

\* C14: getRowIndexForGlobalIndex(index) with index >= TOTAL_CAPACITY fails with
\* an out-of-range error; it never returns a row, and never clamps to the last row.
C14_BeyondTableFails ==
  (/\ calc.fn = "getRowIndexForGlobalIndex"
   /\ calc.phase \in {"row", "localX"}
   /\ calc.input >= TOTAL_CAPACITY) => calc.threw

ReachedCalcDone == calc.fn = "getReachedRowIndexForCount" /\ calc.phase = "row"

LastRow == Len(ENERGY_LEVELS) - 1

\* C15: getReachedRowIndexForCount returns row 0 for count 0, returns r when the
\* count equals the cumulative capacity of the rows 0 .. r, and returns the last
\* row for every count above TOTAL_CAPACITY.
C15_ReachedRowAtBoundaries ==
  ReachedCalcDone =>
    /\ calc.input = 0 => calc.row = 0
    /\ \A r \in 0 .. LastRow : calc.input = CumulativeCapacity(r) => calc.row = r
    /\ calc.input > CumulativeCapacity(LastRow) => calc.row = LastRow

\* the count that fills the rows 0 .. 3 exactly has been mapped to row 3
C15_Witness ==
  /\ ReachedCalcDone
  /\ calc.input = CumulativeCapacity(3)
  /\ calc.row = 3

\* the rows whose inclusive cumulative capacity is at least n
RowsHolding(n) == {r \in 0 .. LastRow : CumulativeCapacity(r) >= n}

\* C16: for every count n, getReachedRowIndexForCount(n) is the highest row index
\* whose inclusive cumulative capacity is >= n, the last row when n exceeds
\* TOTAL_CAPACITY.
C16_ReachedRowIsHighest ==
  ReachedCalcDone =>
    calc.row = IF RowsHolding(calc.input) = {} THEN LastRow
               ELSE CHOOSE r \in RowsHolding(calc.input) :
                      \A r2 \in RowsHolding(calc.input) : r2 <= r

\* C16, amended: for every count n, getReachedRowIndexForCount(n) is the lowest
\* row index whose inclusive cumulative capacity is >= n (row 0 for n <= 0), the
\* last row when n exceeds TOTAL_CAPACITY.
C16_ReachedRowIsLowest ==
  ReachedCalcDone =>
    calc.row = IF RowsHolding(calc.input) = {} THEN LastRow
               ELSE CHOOSE r \in RowsHolding(calc.input) :
                      \A r2 \in RowsHolding(calc.input) : r <= r2

\* one more than the first row holds has been mapped to the second row
C16_Witness ==
  /\ ReachedCalcDone
  /\ calc.input = CumulativeCapacity(0) + 1
  /\ calc.row = 1

(***************************************************************************)
(* The duplicate check of updateNucleonPositions                           *)
(***************************************************************************)

\* C17: the duplicate check inside updateNucleonPositions never fails in any
\* reachable state: every time the counted particles have been placed, the
\* occupants of the table other than the remembered incoming reservations are
\* pairwise distinct.
C17_DuplicateCheckNeverFails ==
  /\ failure # "duplicateParticles"
  /\ \A key \in ParticleTypes :
       noDuplicates(placedOf(Shells[key], incomingParticlesOf(Shells[key], countedArray(Atom, key))))

\* updateNucleonPositions has placed a counted proton while the other proton
\* held a reservation, and its duplicate check passed
C17_Witness ==
  /\ lastOp.op = "addParticle"
  /\ lastOp.particle = P1
  /\ protons = <<P1>>
  /\ inShell(Shells, P2)
  /\ failure = "none"

(***************************************************************************)
(* The coordinates of the counted particles                                *)
(***************************************************************************)

\* the global indices of the slots of the table whose occupant is counted
CountedIndices(key) ==
  {i \in OccupiedIndices(Shells[key]) : includes(countedArray(Atom, key), OccupantAt(Shells[key], i))}

\* the destination of the occupant of the slot with global index i
DestinationAt(key, i) == destination[OccupantAt(Shells[key], i)]

\* C20: for the destinations updateNucleonPositions assigns within one particle
\* type, two slots of the same row get the same vertical coordinate, a larger slot
\* index of a row gets a strictly larger horizontal coordinate, a larger row index
\* gets a strictly smaller vertical view coordinate (rows stack upward), and
\* distinct slots get distinct destinations.
C20_DestinationsOrdered ==
  \A key \in ParticleTypes : \A counted \in {CountedIndices(key)} :
    \A i \in counted : \A j \in counted :
      /\ GlobalSlot(i).row = GlobalSlot(j).row =>
           /\ DestinationAt(key, i).y = DestinationAt(key, j).y
           /\ GlobalSlot(i).x < GlobalSlot(j).x =>
                DestinationAt(key, i).x < DestinationAt(key, j).x
      /\ GlobalSlot(i).row < GlobalSlot(j).row =>
           DestinationAt(key, i).y > DestinationAt(key, j).y
      /\ i # j => DestinationAt(key, i) # DestinationAt(key, j)

\* a reassignment has given every slot of a full table its destination
C20_Witness ==
  /\ lastOp.op = "reconfigureNucleus"
  /\ failure = "none"
  /\ \E key \in ParticleTypes : CountedIndices(key) = GlobalIndices

(***************************************************************************)
(* SpecApp: the chart screen.  BANModel and the handlers of BANScreenView  *)
(* and ChartIntroScreenView act on the ShellModelNucleus.                  *)
(***************************************************************************)

CHART_MAX_NUMBER_OF_PROTONS == 13
CHART_MAX_NUMBER_OF_NEUTRONS == 33

\* the neutron identities the specification uses
MaxAppNeutronId == 4

\* how many particles of the model may be outside the atom at one time
MaxInFlight == 2

\* up to how many counted particles of a type the first one may be taken out
MaxShuffled == 1

\* the number of operations the model follows after a reset
MaxOperations == 4

AppParticles == AssignParticles(PROTON) \cup [type : {NEUTRON}, id : 1 .. MaxAppNeutronId]

\* the numbers the screen may be asked to populate the atom with: more protons
\* than the table holds, and the nucleons of one alpha particle
Queries ==
  {[protons |-> TOTAL_CAPACITY + MaxReserve, neutrons |-> 0],
   [protons |-> 2, neutrons |-> 2]}

\* the model and its atom as one value
App == [atom |-> Atom, model |-> banModel]

\* protonNumberRange.max, neutronNumberRange.max
maxNumber(particleType) ==
  IF particleType = NEUTRON THEN CHART_MAX_NUMBER_OF_NEUTRONS ELSE CHART_MAX_NUMBER_OF_PROTONS

ofType(particles, particleType) == {p \in particles : p.type = particleType}

\* getInfoForParticleType: the particles of the type in the model, less the outgoing
\* ones, against the maximum of the type
belowMaxNumber(model, particleType) ==
  Cardinality(ofType(model.particles, particleType))
    - Cardinality(ofType(model.outgoingParticles, particleType)) < maxNumber(particleType)

\* the creator of the type (its node and its arrow) accepts input
creatorInputEnabled(model, particleType) == belowMaxNumber(model, particleType)

\* the decay to a nuclide with one more particle of the type is offered
withinNumberRange(atom, particleType) ==
  Len(countedArray(atom, particleType)) < maxNumber(particleType)

\* identities of the type that stand for no particle of the model
unusedOf(model, particleType) == ofType(AppParticles, particleType) \ model.particles

\* new BANParticle( particleType.particleTypeString )
newBANParticle(model, particleType) ==
  CHOOSE p \in unusedOf(model, particleType) :
    \A q \in unusedOf(model, particleType) : p.id <= q.id

\* ChartIntroModel.getParticleDestination: the shell model reserves the slot
modelGetParticleDestination(nu, particleType, particle) ==
  getParticleDestination(nu, particleType, particle)

\* BANModel.addParticle
modelAddParticle(model, particle) == [model EXCEPT !.particles = @ \cup {particle}]

incomingOf(model, particleType) ==
  IF particleType = NEUTRON THEN model.incomingNeutrons ELSE model.incomingProtons

\* BANModel.clearIncomingParticle
clearIncomingParticle(model, particle, particleType) ==
  IF particleType = PROTON
    THEN [model EXCEPT !.incomingProtons = @ \ {particle}, !.removalPending = @ \ {particle}]
    ELSE [model EXCEPT !.incomingNeutrons = @ \ {particle}, !.removalPending = @ \ {particle}]

\* BANModel.removeParticle; the particle leaves the particles array and is disposed
modelRemoveParticle(app0, particle) ==
  Only({
    [atom |-> IF removed.nu.failure # "none" THEN removed ELSE dispose(removed, particle),
     model |-> [app0.model EXCEPT !.outgoingParticles = @ \ {particle},
                                  !.particles = @ \ {particle},
                                  !.removalPending = @ \ {particle},
                                  !.fading = @ \ {particle}]]
    : removed \in {IF containsParticle(app0.atom, particle)
                     THEN removeParticle(app0.atom, particle)
                     ELSE app0.atom} })

\* BANModel.addNucleonImmediatelyToAtom
addNucleonImmediatelyToAtom(app0, particleType) ==
  Only({
    Only({
      IF res.nu.failure # "none"
        THEN [atom |-> [app0.atom EXCEPT !.nu = res.nu],
              model |-> modelAddParticle(app0.model, particle)]
        ELSE [atom |-> addParticle([app0.atom EXCEPT !.nu = res.nu], particle),
              model |-> modelAddParticle(app0.model, particle)]
      : res \in {modelGetParticleDestination(app0.atom.nu, particleType, particle)} })
    : particle \in {newBANParticle(app0.model, particleType)} })

\* one turn of the loop of populateAtom without the tests against the maxima of
\* the number ranges
populateOnceUncapped(app0, numberOfProtons, numberOfNeutrons) ==
  Only({
    IF /\ withNeutron.atom.nu.failure = "none"
       /\ Len(withNeutron.atom.protons) < numberOfProtons
      THEN addNucleonImmediatelyToAtom(withNeutron, PROTON)
      ELSE withNeutron
    : withNeutron \in {
        IF Len(app0.atom.neutrons) < numberOfNeutrons
          THEN addNucleonImmediatelyToAtom(app0, NEUTRON)
          ELSE app0} })

\* one turn of the loop of populateAtom: a neutron, then a proton, each if its
\* count is below the number asked for and below the maximum of its range
populateOnce(app0, numberOfProtons, numberOfNeutrons) ==
  Only({
    IF /\ withNeutron.atom.nu.failure = "none"
       /\ Len(withNeutron.atom.protons) < numberOfProtons
       /\ Len(withNeutron.atom.protons) < maxNumber(PROTON)
      THEN addNucleonImmediatelyToAtom(withNeutron, PROTON)
      ELSE withNeutron
    : withNeutron \in {
        IF /\ Len(app0.atom.neutrons) < numberOfNeutrons
           /\ Len(app0.atom.neutrons) < maxNumber(NEUTRON)
          THEN addNucleonImmediatelyToAtom(app0, NEUTRON)
          ELSE app0} })

RECURSIVE populateLoop(_, _, _, _)
\* _.times( times, ... ): the turns in order, the second half after the first
populateLoop(app0, numberOfProtons, numberOfNeutrons, times) ==
  IF times = 0 \/ app0.atom.nu.failure # "none" THEN app0
  ELSE IF times = 1 THEN populateOnce(app0, numberOfProtons, numberOfNeutrons)
  ELSE populateLoop(populateLoop(app0, numberOfProtons, numberOfNeutrons, times \div 2),
                    numberOfProtons, numberOfNeutrons, times - (times \div 2))

\* BANModel.populateAtom
populateAtom(app0, numberOfProtons, numberOfNeutrons) ==
  populateLoop(app0, numberOfProtons, numberOfNeutrons,
               IF numberOfNeutrons > numberOfProtons THEN numberOfNeutrons ELSE numberOfProtons)

\* a listener that takes a nucleon off the mini atom but never adds one
nucleonNumberListenerRemovingOnly(model, nucleonNumber, particleType, isMiniAtomConnected) ==
  LET current == IF particleType = PROTON THEN model.miniProtons ELSE model.miniNeutrons
  IN IF isMiniAtomConnected /\ current - nucleonNumber > 0
       THEN IF particleType = PROTON
              THEN [model EXCEPT !.miniProtons = nucleonNumber]
              ELSE [model EXCEPT !.miniNeutrons = nucleonNumber]
       ELSE model

\* ChartIntroScreenView's nucleonNumberListener: the mini atom gains
\* -nucleonDelta nucleons of the type, or loses nucleonDelta of them, when the
\* mini atom is connected
nucleonNumberListener(model, nucleonNumber, particleType, isMiniAtomConnected) ==
  LET current == IF particleType = PROTON THEN model.miniProtons ELSE model.miniNeutrons
      nucleonDelta == current - nucleonNumber
      updated == IF nucleonDelta < 0
                   THEN IF isMiniAtomConnected THEN current + (0 - nucleonDelta) ELSE current
                   ELSE IF nucleonDelta > 0
                     THEN IF isMiniAtomConnected THEN current - nucleonDelta ELSE current
                     ELSE current
  IN IF particleType = PROTON
       THEN [model EXCEPT !.miniProtons = updated]
       ELSE [model EXCEPT !.miniNeutrons = updated]

\* the links of protonCountProperty and neutronCountProperty: the listener runs
\* for each count that the operation from app0 to app1 has changed
nucleonNumberLinks(app0, app1, isMiniAtomConnected) ==
  LET linked(model, particleType) ==
        IF Len(countedArray(app0.atom, particleType)) = Len(countedArray(app1.atom, particleType))
          THEN model
          ELSE nucleonNumberListener(model, Len(countedArray(app1.atom, particleType)),
                                     particleType, isMiniAtomConnected)
  IN [app1 EXCEPT !.model = linked(linked(@, PROTON), NEUTRON)]

hideUndo(model) == [model EXCEPT !.undo = NoUndo]

\* the particles of the model that are not counted in the atom
notCounted(app) == {p \in app.model.particles : ~containsParticle(app.atom, p)}

\* BANScreenView.createParticleFromStack
createParticleFromStack(app0, particleType) ==
  Only({
    Only({
      IF res.nu.failure # "none"
        THEN [app0 EXCEPT !.atom.nu = res.nu]
        ELSE [atom |-> [app0.atom EXCEPT !.nu = [res.nu EXCEPT !.destination[particle] =
                                                   res.viewDestination]],
              model |-> IF particleType = PROTON
                          THEN [modelAddParticle(app0.model, particle)
                                  EXCEPT !.incomingProtons = @ \cup {particle}]
                          ELSE [modelAddParticle(app0.model, particle)
                                  EXCEPT !.incomingNeutrons = @ \cup {particle}]]
      : res \in {modelGetParticleDestination(app0.atom.nu, particleType, particle)} })
    : particle \in {newBANParticle(app0.model, particleType)} })

\* the animationEnded listener createParticleFromStack gives the particle
incomingAnimationEnded(app0, particle) ==
  IF containsParticle(app0.atom, particle) THEN app0
  ELSE [atom |-> addParticle(app0.atom, particle),
        model |-> clearIncomingParticle(app0.model, particle, particle.type)]

\* BANModel.getParticlesByType
getParticlesByType(app, particleType) ==
  {p \in app.model.particles : containsParticle(app.atom, p) /\ p.type = particleType}

\* the particles getParticleToReturn may find closest to the creator node, and
\* the ones the user picks up: the last counted particle of the type, and the
\* first one while at most MaxShuffled particles of the type are counted
closestCandidates(app, particleType) ==
  {p \in getParticlesByType(app, particleType) :
     \E array \in {countedArray(app.atom, particleType)} :
       \/ p = array[Len(array)]
       \/ Len(array) <= MaxShuffled /\ p = array[1]}

\* BANScreenView.animateAndRemoveParticle with a destination
animateAndRemoveParticle(model, particle) ==
  [model EXCEPT !.removalPending = @ \cup {particle}]

\* BANScreenView.returnParticleToStack, after getParticleToReturn
returnParticleToStack(app0, particleToReturn) ==
  IF containsParticle(app0.atom, particleToReturn)
    THEN [atom |-> removeParticle(app0.atom, particleToReturn),
          model |-> animateAndRemoveParticle(app0.model, particleToReturn)]
  ELSE IF particleToReturn \in app0.model.incomingNeutrons \cup app0.model.incomingProtons
    THEN [app0 EXCEPT !.model = animateAndRemoveParticle(
                        clearIncomingParticle(app0.model, particleToReturn, particleToReturn.type),
                        particleToReturn)]
  ELSE [app0 EXCEPT !.atom.nu.failure = "notCovered"]

\* userControlledListener( isUserControlled, particle ) of BANModel
userControlledListener(app0, isUserControlled, particle) ==
  [atom |-> IF isUserControlled /\ containsParticle(app0.atom, particle)
              THEN removeParticle(app0.atom, particle)
              ELSE app0.atom,
   model |-> IF particle.type = PROTON
               THEN [app0.model EXCEPT !.userControlledProtons =
                       IF isUserControlled THEN @ \cup {particle} ELSE @ \ {particle}]
               ELSE [app0.model EXCEPT !.userControlledNeutrons =
                       IF isUserControlled THEN @ \cup {particle} ELSE @ \ {particle}]]

\* BANScreenView.dragEndedListener; inCaptureArea stands for
\* isNucleonInCaptureArea( nucleon ) || currentlyNonExistentAtom
dragEndedListener(app0, nucleon, inCaptureArea) ==
  IF inCaptureArea
    THEN IF containsParticle(app0.atom, nucleon) THEN app0
         ELSE [app0 EXCEPT !.atom = addParticle(app0.atom, nucleon)]
    ELSE [app0 EXCEPT !.model = animateAndRemoveParticle(app0.model, nucleon)]

\* BANScreenView.addAndDragParticle of a new particle of the creator node
addAndDragParticle(app0, particleType) ==
  Only({ userControlledListener([app0 EXCEPT !.model = modelAddParticle(app0.model, particle)],
                                TRUE, particle)
         : particle \in {newBANParticle(app0.model, particleType)} })

\* the last counted particle of the type, the one extractParticle takes
lastCounted(atom, particleType) ==
  countedArray(atom, particleType)[Len(countedArray(atom, particleType))]

\* ChartIntroScreenView.fadeOutShellNucleon
fadeOutShellNucleon(app0, particleType) ==
  Only({ [atom |-> removeParticle(app0.atom, shellNucleusNucleon),
          model |-> [app0.model EXCEPT !.outgoingParticles = @ \cup {shellNucleusNucleon},
                                       !.fading = @ \cup {shellNucleusNucleon}]]
         : shellNucleusNucleon \in {lastCounted(app0.atom, particleType)} })

otherNucleonType(particleType) == IF particleType = PROTON THEN NEUTRON ELSE PROTON

\* the mini atom after miniParticleAtom.extractParticle, times times
miniExtractParticle(model, particleType, times) ==
  IF particleType = PROTON
    THEN [model EXCEPT !.miniProtons = @ - times]
    ELSE [model EXCEPT !.miniNeutrons = @ - times]

\* ChartIntroScreenView.emitNucleon: the mini atom is disconnected while
\* BANScreenView.emitNucleon takes the nucleon out of the mini atom and the
\* nucleon of the shell nucleus fades out
emitNucleon(app0, particleType) ==
  Only({ nucleonNumberLinks(emitted, fadeOutShellNucleon(emitted, particleType), FALSE)
         : emitted \in {[app0 EXCEPT !.model = miniExtractParticle(@, particleType, 1)]} })

\* ChartIntroScreenView.emitAlphaParticle: BANScreenView.emitAlphaParticle takes
\* two protons and two neutrons out of the disconnected mini atom, then two
\* protons and two neutrons of the shell nucleus fade out
emitAlphaParticle(app0) ==
  Only({ nucleonNumberLinks(emitted,
           fadeOutShellNucleon(fadeOutShellNucleon(
             fadeOutShellNucleon(fadeOutShellNucleon(emitted, PROTON), PROTON),
             NEUTRON), NEUTRON),
           FALSE)
         : emitted \in {[app0 EXCEPT !.model =
                           miniExtractParticle(miniExtractParticle(@, PROTON, 2), NEUTRON, 2)]} })

\* ChartIntroScreenView.betaDecay: changeNucleonType changes a nucleon of the
\* disconnected mini atom, then a nucleon of the shell nucleus is extracted to
\* fade out and one of the other type is added immediately
betaDecay(app0, nucleonTypeToChange) ==
  Only({
    Only({ nucleonNumberLinks(changed,
             IF extracted.atom.nu.failure # "none" THEN extracted
             ELSE addNucleonImmediatelyToAtom(extracted, otherNucleonType(nucleonTypeToChange)),
             FALSE)
           : extracted \in {[atom |-> removeParticle(changed.atom, particleToRemove),
                             model |-> [changed.model EXCEPT !.fading = @ \cup {particleToRemove}]]} })
    : particleToRemove \in {lastCounted(app0.atom, nucleonTypeToChange)},
      changed \in {[app0 EXCEPT !.model =
                      miniExtractParticle(
                        miniExtractParticle(@, nucleonTypeToChange, 1),
                        otherNucleonType(nucleonTypeToChange), 0 - 1)]} })

\* BANScreenView.removeNucleonImmediatelyFromAtom
removeNucleonImmediatelyFromAtom(app0, particleType) ==
  Only({ IF extracted.atom.nu.failure # "none" THEN extracted
         ELSE modelRemoveParticle(extracted, lastCounted(app0.atom, particleType))
         : extracted \in {[app0 EXCEPT !.atom =
                             removeParticle(app0.atom, lastCounted(app0.atom, particleType))]} })

RECURSIVE restorePreviousNucleonNumber(_, _, _)
\* BANScreenView.restorePreviousNucleonNumber
restorePreviousNucleonNumber(app0, particleType, oldNucleonNumber) ==
  IF app0.atom.nu.failure # "none" THEN app0
  ELSE IF oldNucleonNumber > Len(countedArray(app0.atom, particleType))
    THEN restorePreviousNucleonNumber(addNucleonImmediatelyToAtom(app0, particleType),
                                      particleType, oldNucleonNumber)
  ELSE IF oldNucleonNumber < Len(countedArray(app0.atom, particleType))
    THEN restorePreviousNucleonNumber(removeNucleonImmediatelyFromAtom(app0, particleType),
                                      particleType, oldNucleonNumber)
  ELSE app0

\* an undo that leaves the outgoing particles in the model
removeOutgoingNone(app0) == app0

RECURSIVE removeOutgoing(_)
\* [ ...outgoingParticles ].forEach( particle => model.removeParticle( particle ) )
removeOutgoing(app0) ==
  IF app0.model.outgoingParticles = {} \/ app0.atom.nu.failure # "none" THEN app0
  ELSE removeOutgoing(modelRemoveParticle(app0, CHOOSE p \in app0.model.outgoingParticles : TRUE))

\* BANScreenView.undoDecay
undoDecay(app0, oldProtonNumber, oldNeutronNumber) ==
  Only({ [restored EXCEPT !.model.outgoingParticles = {}, !.model.fading = {}]
         : restored \in {removeOutgoing(
             restorePreviousNucleonNumber(
               restorePreviousNucleonNumber(app0, PROTON, oldProtonNumber),
               NEUTRON, oldNeutronNumber))} })

\* particles.clear(): the item-removed listener disposes of every particle
disposeEvery(atom0) ==
  Only({ [atom EXCEPT
            !.nu.destination = [p \in DOMAIN @ |->
               IF containsParticle(atom, p) \/ inShell(atom.nu.shells, p)
                 THEN @[p] ELSE NoDestination],
            !.nu.inputEnabled = [p \in DOMAIN @ |->
               IF containsParticle(atom, p) \/ inShell(atom.nu.shells, p)
                 THEN @[p] ELSE TRUE]]
         : atom \in {atom0} })

\* BANModel.reset
modelReset(app0) ==
  [atom |-> disposeEvery(clear(app0.atom)),
   model |-> [NoBANModel EXCEPT !.query = app0.model.query,
                                !.miniProtons = app0.model.miniProtons,
                                !.miniNeutrons = app0.model.miniNeutrons,
                                !.nuclides = app0.model.nuclides]]

\* the listener of the reset-all button: model.reset(), then the screen view's
\* reset populates the default atom
resetAll(app0) ==
  Only({ IF emptied.atom.nu.failure # "none" THEN emptied
         ELSE nucleonNumberLinks(emptied,
                populateAtom(emptied, emptied.model.query.protons, emptied.model.query.neutrons),
                TRUE)
         : emptied \in {nucleonNumberLinks(app0, modelReset(app0), TRUE)} })

\* the variables take the values of the application value a
SetApp(a) == SetAtom(a.atom) /\ banModel' = a.model

InitApp ==
  /\ \E query \in Queries :
       \E empty \in {[atom |-> EmptyAtom(AppParticles),
                      model |-> [NoBANModel EXCEPT !.query = query]]} :
         \E a \in {nucleonNumberLinks(empty, populateAtom(empty, query.protons, query.neutrons),
                                      TRUE)} :
           AtomIs(a.atom) /\ banModel = a.model
  /\ lastOp = Op("init", NoParticle, FALSE)
  /\ beforeReserve = NoSnapshot
  /\ calc = NoCalc

\* another particle may leave the atom or enter the model
mayFly == Cardinality(notCounted(App)) < MaxInFlight

\* an operation of the user may start: nothing has failed, and fewer than
\* MaxOperations operations have run since the last reset
mayAct == failure = "none" /\ banModel.operations < MaxOperations

AppStep(name, particle, a) ==
  /\ SetApp([a EXCEPT !.model.operations =
               IF name = "resetAll" THEN 0 ELSE banModel.operations + 1])
  /\ lastOp' = Op(name, NoParticle, FALSE)
  /\ beforeReserve' = NoSnapshot
  /\ UNCHANGED calc

\* the up arrow of a creator is pressed
CreateParticleFromStack(particleType) ==
  /\ mayAct
  /\ mayFly
  /\ creatorInputEnabled(banModel, particleType)
  /\ unusedOf(banModel, particleType) # {}
  /\ \E a \in {nucleonNumberLinks(App, createParticleFromStack([App EXCEPT !.model = hideUndo(banModel)], particleType), TRUE)} :
       AppStep("createParticleFromStack", newBANParticle(banModel, particleType), a)

\* an incoming particle reaches the atom
IncomingAnimationEnded(particle) ==
  /\ mayAct
  /\ particle \in banModel.incomingProtons \cup banModel.incomingNeutrons
  /\ \E a \in {nucleonNumberLinks(App, incomingAnimationEnded([App EXCEPT !.model = hideUndo(banModel)], particle), TRUE)} :
       AppStep("incomingAnimationEnded", particle, a)

\* the down arrow of a creator is pressed
ReturnParticleToStack(particleType) ==
  /\ mayAct
  /\ mayFly
  /\ IF getParticlesByType(App, particleType) = {}
       THEN \E a \in {[App EXCEPT !.atom.nu.failure = "noParticleToReturn"]} :
              AppStep("returnParticleToStack", NoParticle, a)
       ELSE \E particleToReturn \in closestCandidates(App, particleType) :
              \E a \in {nucleonNumberLinks(App,
                         returnParticleToStack([App EXCEPT !.model = hideUndo(banModel)],
                                               particleToReturn), TRUE)} :
                AppStep("returnParticleToStack", particleToReturn, a)

\* the animation of a leaving particle, or its fade, ends: model.removeParticle
RemovalAnimationEnded(particle) ==
  /\ mayAct
  /\ particle \in banModel.removalPending \cup banModel.fading
  /\ \E a \in {nucleonNumberLinks(App, modelRemoveParticle(App, particle), TRUE)} :
       AppStep("removeParticle", particle, a)

\* the user picks up a counted particle
StartDrag(particle) ==
  /\ mayAct
  /\ mayFly
  /\ particle \in closestCandidates(App, particle.type)
  /\ \E a \in {nucleonNumberLinks(App, userControlledListener([App EXCEPT !.model = hideUndo(banModel)], TRUE, particle), TRUE)} :
       AppStep("startDrag", particle, a)

\* the user drops a particle, inside the capture area or outside
EndDrag(particle, inCaptureArea) ==
  /\ mayAct
  /\ particle \in banModel.userControlledProtons \cup banModel.userControlledNeutrons
  /\ \E a \in {nucleonNumberLinks(App, dragEndedListener(
                 userControlledListener([App EXCEPT !.model = hideUndo(banModel)], FALSE, particle),
                 particle, inCaptureArea), TRUE)} :
       AppStep("endDrag", particle, a)

\* the user drags a new particle off a creator node
AddAndDragParticle(particleType) ==
  /\ mayAct
  /\ mayFly
  /\ creatorInputEnabled(banModel, particleType)
  /\ unusedOf(banModel, particleType) # {}
  /\ \E a \in {nucleonNumberLinks(App, addAndDragParticle([App EXCEPT !.model = hideUndo(banModel)], particleType), TRUE)} :
       AppStep("addAndDragParticle", newBANParticle(banModel, particleType), a)

\* the counts the undo button restores
undoOf(atom) == [shown |-> TRUE, protons |-> Len(atom.protons), neutrons |-> Len(atom.neutrons)]

\* a nucleon emission decay
EmitNucleon(particleType) ==
  /\ mayAct
  /\ mayFly
  /\ Len(countedArray(Atom, particleType)) > 0
  /\ \E a \in {emitNucleon([App EXCEPT !.model.undo = undoOf(Atom)], particleType)} :
       AppStep("emitNucleon", lastCounted(Atom, particleType), a)

\* an alpha decay: the nucleus has the two protons and two neutrons it emits
AlphaDecay ==
  /\ mayAct
  /\ mayFly
  /\ Len(protons) >= 2
  /\ Len(neutrons) >= 2
  /\ \E a \in {emitAlphaParticle([App EXCEPT !.model.undo = undoOf(Atom)])} :
       AppStep("alphaDecay", NoParticle, a)

\* a beta decay that changes a nucleon of the type into one of the other type
BetaDecay(nucleonTypeToChange) ==
  /\ mayAct
  /\ mayFly
  /\ Len(countedArray(Atom, nucleonTypeToChange)) > 0
  /\ withinNumberRange(Atom, otherNucleonType(nucleonTypeToChange))
  /\ unusedOf(banModel, otherNucleonType(nucleonTypeToChange)) # {}
  /\ \E a \in {betaDecay([App EXCEPT !.model.undo = undoOf(Atom)], nucleonTypeToChange)} :
       AppStep("betaDecay", lastCounted(Atom, nucleonTypeToChange), a)

\* the undo button is pressed
UndoDecay ==
  /\ mayAct
  /\ banModel.undo.shown
  /\ Cardinality(unusedOf(banModel, PROTON)) >= banModel.undo.protons - Len(protons)
  /\ Cardinality(unusedOf(banModel, NEUTRON)) >= banModel.undo.neutrons - Len(neutrons)
  /\ \E a \in {nucleonNumberLinks(App, undoDecay([App EXCEPT !.model = hideUndo(banModel)],
                                               banModel.undo.protons, banModel.undo.neutrons),
                                   TRUE)} :
       AppStep("undoDecay", NoParticle, a)

\* the reset-all button is pressed
ResetAll ==
  /\ failure = "none"
  /\ \E a \in {resetAll(App)} : AppStep("resetAll", NoParticle, a)

NextApp ==
  \/ \E particleType \in ParticleTypes : CreateParticleFromStack(particleType)
  \/ \E particle \in banModel.incomingProtons \cup banModel.incomingNeutrons :
       IncomingAnimationEnded(particle)
  \/ \E particleType \in ParticleTypes : ReturnParticleToStack(particleType)
  \/ \E particle \in banModel.removalPending \cup banModel.fading :
       RemovalAnimationEnded(particle)
  \/ \E particleType \in ParticleTypes : \E particle \in closestCandidates(App, particleType) :
       StartDrag(particle)
  \/ \E particle \in banModel.userControlledProtons \cup banModel.userControlledNeutrons :
       \E inCaptureArea \in BOOLEAN : EndDrag(particle, inCaptureArea)
  \/ \E particleType \in ParticleTypes : AddAndDragParticle(particleType)
  \/ \E particleType \in ParticleTypes : EmitNucleon(particleType)
  \/ AlphaDecay
  \/ \E nucleonTypeToChange \in ParticleTypes : BetaDecay(nucleonTypeToChange)
  \/ UndoDecay
  \/ ResetAll

SpecApp == InitApp /\ [][NextApp]_vars

(***************************************************************************)
(* SpecStep: BANScreenView.step on a small nucleus.  Time is counted in    *)
(* ticks of half a second; the table of AtomIdentifier is one of           *)
(* NuclideTables.                                                          *)
(***************************************************************************)

\* BANConstants.TIME_TO_SHOW_DOES_NOT_EXIST: one second, in ticks
TIME_TO_SHOW_DOES_NOT_EXIST == 2

\* the longest step, in ticks
MaxDt == 2

\* the countdown is followed up to this many ticks
MaxCountdown == 3

Nuclide(protonNumber, neutronNumber) == [protons |-> protonNumber, neutrons |-> neutronNumber]

\* tables AtomIdentifier.doesExist may answer from: with and without the free
\* neutron, both without a nucleus of two protons alone
NuclideTables ==
  {{Nuclide(1, 0), Nuclide(0, 1), Nuclide(1, 1), Nuclide(1, 2), Nuclide(2, 1), Nuclide(2, 2)},
   {Nuclide(1, 0), Nuclide(1, 1), Nuclide(2, 1)}}

\* the atoms the screen of SpecStep starts with
StepQueries == {Nuclide(0, 0), Nuclide(1, 1)}

\* AtomIdentifier.doesExist
doesExist(model, protonNumber, neutronNumber) ==
  Nuclide(protonNumber, neutronNumber) \in model.nuclides

\* nuclideExistsProperty, derived from the two counts of the atom
nuclideExists(app) == doesExist(app.model, Len(app.atom.protons), Len(app.atom.neutrons))

RECURSIVE returnParticlesToStack(_, _, _)
\* _.times( times, () => returnParticleToStack( particleType ) ): the values the
\* application may have after it, one for each choice of getParticleToReturn
returnParticlesToStack(apps, particleType, times) ==
  IF times <= 0 THEN apps
  ELSE returnParticlesToStack(
         UNION {IF a.atom.nu.failure # "none" THEN {a}
                ELSE IF closestCandidates(a, particleType) = {}
                  THEN {[a EXCEPT !.atom.nu.failure = "noParticleToReturn"]}
                ELSE {returnParticleToStack(a, particleToReturn) :
                        particleToReturn \in closestCandidates(a, particleType)}
                : a \in apps},
         particleType, times - 1)

RECURSIVE createParticlesFromStack(_, _, _)
\* _.times( times, () => createParticleFromStack( particleType ) )
createParticlesFromStack(app0, particleType, times) ==
  IF times <= 0 \/ app0.atom.nu.failure # "none" THEN app0
  ELSE createParticlesFromStack(createParticleFromStack(app0, particleType), particleType, times - 1)

\* the part of step that returns or creates the particles of one type
correctNumber(apps, particleType, previousNumber, number) ==
  IF previousNumber < number
    THEN returnParticlesToStack(apps, particleType, number - previousNumber)
  ELSE IF previousNumber > number
    THEN {createParticlesFromStack(a, particleType, previousNumber - number) : a \in apps}
  ELSE apps

\* the first statement of step without the reset of the countdown
countdownNeverReset(app0, dt) ==
  [app0.model EXCEPT !.timeSinceCountdownStarted = @ + dt]

\* the first statement of step: the countdown goes on, or it is reset and the
\* numbers of the atom are stored
countdown(app0, dt) ==
  IF /\ ~nuclideExists(app0)
     /\ ~(Len(app0.atom.protons) = 0 /\ Len(app0.atom.neutrons) = 0)
     /\ app0.model.correctingNonexistentNuclide
    THEN [app0.model EXCEPT !.timeSinceCountdownStarted = @ + dt]
    ELSE [app0.model EXCEPT !.timeSinceCountdownStarted = 0,
                            !.previousProtonNumber = Len(app0.atom.protons),
                            !.previousNeutronNumber = Len(app0.atom.neutrons)]

\* the condition of the second statement of step
correctionFires(model) ==
  /\ model.timeSinceCountdownStarted >= TIME_TO_SHOW_DOES_NOT_EXIST
  /\ model.userControlledNeutrons = {}
  /\ model.userControlledProtons = {}

\* BANScreenView.step: the values the application may have after it
step(app0, dt) ==
  LET counted == [app0 EXCEPT !.model = countdown(app0, dt)]
      fired == [counted EXCEPT !.model.timeSinceCountdownStarted = 0]
  IN IF ~correctionFires(counted.model) THEN {counted}
     ELSE IF ~(\/ doesExist(fired.model, fired.model.previousProtonNumber,
                            fired.model.previousNeutronNumber)
               \/ (fired.model.previousProtonNumber = 0 /\ fired.model.previousNeutronNumber = 0))
       THEN {[fired EXCEPT !.atom.nu.failure = "cannotSetBack"]}
     ELSE correctNumber(
            correctNumber({fired}, PROTON, fired.model.previousProtonNumber,
                          Len(app0.atom.protons)),
            NEUTRON, fired.model.previousNeutronNumber, Len(app0.atom.neutrons))

\* how long the steps have found a nuclide that does not exist, up to
\* TIME_TO_SHOW_DOES_NOT_EXIST
shownAfter(shown, dt) ==
  IF nuclideExists(App) \/ (Len(protons) = 0 /\ Len(neutrons) = 0) THEN 0
  ELSE IF shown + dt > TIME_TO_SHOW_DOES_NOT_EXIST THEN TIME_TO_SHOW_DOES_NOT_EXIST
  ELSE shown + dt

InitStep ==
  /\ \E query \in StepQueries : \E nuclides \in NuclideTables :
       \E empty \in {[atom |-> EmptyAtom(AppParticles),
                      model |-> [NoBANModel EXCEPT !.query = query, !.nuclides = nuclides]]} :
         \E a \in {nucleonNumberLinks(empty, populateAtom(empty, query.protons, query.neutrons),
                                      TRUE)} :
           AtomIs(a.atom) /\ banModel = a.model
  /\ lastOp = Op("init", NoParticle, FALSE)
  /\ beforeReserve = NoSnapshot
  /\ calc = [fn |-> "step", shown |-> 0]

\* a frame of the animation: step( dt )
Step(dt) ==
  /\ failure = "none"
  /\ countdown(App, dt).timeSinceCountdownStarted <= MaxCountdown
  /\ correctionFires(countdown(App, dt)) => mayFly
  /\ \E stepped \in step(App, dt) :
       SetApp(nucleonNumberLinks(App, stepped, TRUE))
  /\ lastOp' = Op("step", NoParticle, correctionFires(countdown(App, dt)))
  /\ beforeReserve' = NoSnapshot
  /\ calc' = [calc EXCEPT !.shown = shownAfter(@, dt)]

NextStep ==
  \/ \E dt \in 1 .. MaxDt : Step(dt)
  \/ \E particleType \in ParticleTypes : CreateParticleFromStack(particleType)
  \/ \E particle \in banModel.incomingProtons \cup banModel.incomingNeutrons :
       IncomingAnimationEnded(particle)
  \/ \E particle \in banModel.removalPending \cup banModel.fading :
       RemovalAnimationEnded(particle)
  \/ \E particleType \in ParticleTypes : \E particle \in closestCandidates(App, particleType) :
       StartDrag(particle)
  \/ \E particle \in banModel.userControlledProtons \cup banModel.userControlledNeutrons :
       \E inCaptureArea \in BOOLEAN : EndDrag(particle, inCaptureArea)
  \/ \E particleType \in ParticleTypes : AddAndDragParticle(particleType)
  \/ ResetAll

SpecStep == InitStep /\ [][NextStep]_vars

(***************************************************************************)
(* Claims about the chart screen, checked under SpecApp                     *)
(***************************************************************************)

\* the particles coming in to the atom
incomingParticles == banModel.incomingProtons \cup banModel.incomingNeutrons

\* the occupants of the slots of both tables
SlotOccupants ==
  UNION {{OccupantAt(Shells[key], i) : i \in OccupiedIndices(Shells[key])} : key \in ParticleTypes}

\* the particles counted in the atom
CountedParticles == {protons[k] : k \in 1 .. Len(protons)} \cup {neutrons[k] : k \in 1 .. Len(neutrons)}

HoldersOf(particleType) ==
  {OccupantAt(Shells[TableKey(particleType)], i) :
     i \in OccupiedIndices(Shells[TableKey(particleType)])}
    \cup {countedArray(Atom, particleType)[k] : k \in 1 .. Len(countedArray(Atom, particleType))}

RightMostOfHighestRow(table) ==
  IF OccupiedIndices(table) = {} THEN NoParticle
  ELSE OccupantAt(table, CHOOSE i \in OccupiedIndices(table) :
                            \A j \in OccupiedIndices(table) : j <= i)

\* C22: getLastParticleInShell(type) returns the occupant of the right-most
\* occupied slot of the highest row of the type's table that has an occupied
\* slot, returns undefined exactly when the table has no occupant, and
\* changes neither table
C22_LastParticleInShell ==
  [][\A particleType \in ParticleTypes :
       GetLastParticleInShell(particleType) =>
         /\ lastOp'.particle = RightMostOfHighestRow(Shells[TableKey(particleType)])
         /\ (lastOp'.particle = NoParticle) <=>
              (OccupiedIndices(Shells[TableKey(particleType)]) = {})
         /\ protonShellPositions' = protonShellPositions
         /\ neutronShellPositions' = neutronShellPositions]_vars

\* the call has returned a reserved particle that sits above an empty slot
C22_Witness ==
  /\ lastOp.op = "getLastParticleInShell"
  /\ lastOp.particle \in ReserveParticles
  /\ \E key \in ParticleTypes :
       /\ occupies(Shells[key], lastOp.particle)
       /\ \E i \in GlobalIndices \ OccupiedIndices(Shells[key]) :
            \E j \in OccupiedIndices(Shells[key]) : i < j

\* the counted particles of the type with the row of their array index
CountedRows(particleType) ==
  {<< countedArray(Atom, particleType)[k], getRowIndexForGlobalIndex(k - 1) >> :
     k \in 1 .. Len(countedArray(Atom, particleType))}

\* C23: the binding effect is controlled by the reached-row index: after
\* updateNucleonPositions every counted particle in a row strictly below the
\* reached row is bound (its input is disabled) and every counted particle in
\* the reached row or above has its input enabled
C23_BoundBelowReachedRow ==
  (failure = "none" /\ lastOp.op \in {"init", "reconfigureNucleus"}) =>
    \A particleType \in ParticleTypes :
      \A placed \in CountedRows(particleType) :
        inputEnabled[placed[1]] <=> (placed[2] >= reachedOf(Atom, particleType))

(***************************************************************************)
(* Claims about the decays of the chart screen and their undoing           *)
(***************************************************************************)

\* C25: after undoDecay(oldProtonNumber, oldNeutronNumber), whatever decay
\* preceded it, the atom has exactly oldProtonNumber protons and
\* oldNeutronNumber neutrons, outgoingParticles and the particle animations
\* are empty, and no particle that was outgoing remains in model.particles
C25_UndoRestoresNumbers ==
  [][UndoDecay =>
       /\ failure' = "none"
       /\ Len(protons') = banModel.undo.protons
       /\ Len(neutrons') = banModel.undo.neutrons
       /\ banModel'.outgoingParticles = {}
       /\ banModel'.fading = {}
       /\ banModel'.particles \cap banModel.outgoingParticles = {}]_vars

\* a decay has been undone: the atom is back at its maximum of protons
C25_Witness ==
  /\ lastOp.op = "undoDecay"
  /\ failure = "none"
  /\ Len(protons) = CHART_MAX_NUMBER_OF_PROTONS
  /\ banModel.outgoingParticles = {}

\* C24: the mini atom is in sync with the shell nucleus: in every reachable
\* state of the chart screen (between operations, so with the mini atom
\* connected), after adds, removes, emissions, alpha and beta decays and
\* undos, the mini atom has as many protons and as many neutrons as the atom
C24_MiniAtomInSync ==
  failure = "none" =>
    /\ banModel.miniProtons = Len(protons)
    /\ banModel.miniNeutrons = Len(neutrons)

\* an alpha decay has taken two protons and two neutrons out of both atoms
C24_Witness ==
  /\ lastOp.op = "alphaDecay"
  /\ failure = "none"
  /\ banModel.miniProtons = banModel.undo.protons - 2
  /\ banModel.miniNeutrons = banModel.undo.neutrons - 2
  /\ Len(protons) = banModel.miniProtons
  /\ Cardinality(banModel.fading) = 4

\* C26: whenever step corrects a nuclide that does not exist, the steps have
\* found a non-existent nuclide for at least TIME_TO_SHOW_DOES_NOT_EXIST of
\* step time, no proton or neutron is user-controlled, and the stored
\* previous numbers are an existing nuclide or (0, 0), so the assertion of
\* step does not fail
C26_CorrectionAfterCountdown ==
  [][\A dt \in 1 .. MaxDt :
       (Step(dt) /\ lastOp'.wasInShell) =>
         /\ calc'.shown >= TIME_TO_SHOW_DOES_NOT_EXIST
         /\ banModel.userControlledProtons = {} /\ banModel.userControlledNeutrons = {}
         /\ \/ doesExist(banModel, banModel.previousProtonNumber, banModel.previousNeutronNumber)
            \/ (banModel.previousProtonNumber = 0 /\ banModel.previousNeutronNumber = 0)
         /\ failure' # "cannotSetBack"]_vars

\* step has corrected a nucleus of a proton and a neutron that had lost its
\* proton: a new proton is on its way to the atom
C26_Witness ==
  /\ lastOp.op = "step"
  /\ lastOp.wasInShell
  /\ failure = "none"
  /\ banModel.previousProtonNumber = 1
  /\ Len(protons) = 0
  /\ banModel.incomingProtons # {}
  /\ banModel.timeSinceCountdownStarted = 0

\* the reserved, non-counted occupants of the table of the type, row-major
ReservedInOrder(key) == incomingParticlesOf(Shells[key], countedArray(Atom, key))

\* the table of the type holds at most TOTAL_CAPACITY counted and reserved particles
FitsTable(key) == Len(countedArray(Atom, key)) + Len(ReservedInOrder(key)) <= TOTAL_CAPACITY

C28_OneDestinationPerSlot ==
  \A key \in ParticleTypes : \A array \in {countedArray(Atom, key)} :
    \A i \in OccupiedIndices(Shells[key]) :
      i < Len(array) => DestinationAt(key, i) = destination[array[i + 1]]

\* C29: the reached row agrees with placement: for every count n from 1 to
\* TOTAL_CAPACITY getReachedRowIndexForCount(n) is getRowIndexForGlobalIndex(n - 1),
\* the row of the last placed particle; and in every state, the listeners
\* having run, the reached row of each type is getReachedRowIndexForCount of
\* the number of counted particles of the type
C29_ReachedRowAgrees ==
  /\ \A n \in 1 .. TOTAL_CAPACITY :
       getReachedRowIndexForCount(n) = getRowIndexForGlobalIndex(n - 1)
  /\ failure = "none" =>
       \A particleType \in ParticleTypes :
         reachedOf(Atom, particleType) =
           getReachedRowIndexForCount(Len(countedArray(Atom, particleType)))

\* a particle added to a full row was extracted again: the reached row is the
\* row of the last slot of the full row, one less than before
C29_Witness ==
  /\ lastOp.op = "extractParticle"
  /\ failure = "none"
  /\ \E particleType \in ParticleTypes : \E n \in {Len(countedArray(Atom, particleType))} :
       /\ n > 0
       /\ n = CumulativeCapacity(reachedOf(Atom, particleType))
       /\ reachedOf(Atom, particleType) > 0
       /\ getRowIndexForGlobalIndex(n) = reachedOf(Atom, particleType) + 1

\* the global indices of the slots in which the two tables differ
ChangedSlots(before, after) ==
  {i \in GlobalIndices : OccupantAt(before, i) # OccupantAt(after, i)}

\* C30: the proton and neutron tables are independent: a successful
\* getParticleDestination(type, p) changes exactly one slot, in the table of
\* that type, removeParticleFromShell(p) changes only slots of the table of
\* the type of p, and neither changes a slot of the table of the other type
\* nor the counted arrays of the atom
C30_TablesIndependent ==
  [][ (lastOp'.op \in {"getParticleDestination", "removeParticleFromShell"} /\ failure' = "none") =>
        \A key \in {lastOp'.particle.type} :
          /\ lastOp'.op = "getParticleDestination" =>
               Cardinality(ChangedSlots(Shells[key], Shells'[key])) = 1
          /\ \A other \in ParticleTypes \ {key} : ChangedSlots(Shells[other], Shells'[other]) = {}
          /\ protons' = protons
          /\ neutrons' = neutrons ]_vars

\* the slot of the neutron has been released while a proton holds a slot of
\* the proton table
C30_Witness ==
  /\ lastOp.op = "removeParticleFromShell"
  /\ lastOp.particle.type = NEUTRON
  /\ lastOp.wasInShell
  /\ OccupiedIndices(neutronShellPositions) = {}
  /\ OccupiedIndices(protonShellPositions) # {}

====
